---- MODULE Spec2Model ----
(***************************************************************************)
(* A model of the scheme-rs interpreter: the evaluator (eval.rs), the      *)
(* environment with its slot store and closure snapshots (env.rs), the     *)
(* primitive operations (primitive.rs) and the interactive front end       *)
(* (repl.rs).                                                              *)
(*                                                                         *)
(* eval and apply are mutually recursive Rust functions.  The model runs   *)
(* them as a machine: ctrl is the point the evaluation is at and stack     *)
(* holds one frame for every activation of eval or apply that waits for a  *)
(* sub-evaluation, with the locals that activation still needs.  A Rust    *)
(* panic (todo!(), an index out of range, an integer division by zero)     *)
(* ends the process: ctrl.mode becomes "panicked" and nothing is enabled.  *)
(*                                                                         *)
(* Numbers are i64 in the source.  Every script of the model keeps its     *)
(* numbers far inside that range, where i64 arithmetic is exact.           *)
(***************************************************************************)
EXTENDS Integers, Sequences, FiniteSets, TLC

VARIABLES
    env,      \* Env: vals (slot store), vars (name -> slot), next_port_id, ports
    ctrl,     \* where the evaluation is: idle, eval, apply, ret, panicked, exited
    stack,    \* the waiting activations of eval / apply, innermost first
    hist,     \* the lines the front end has read so far
    output    \* what the front end has printed, one entry per line read

vars == <<env, ctrl, stack, hist, output>>

----------------------------------------------------------------------------
(* Values (value.rs, eval.rs)                                              *)

Atom(name) == [tag |-> "Atom", name |-> name]

List(items) == [tag |-> "List", items |-> items]

DottedList(items, tail) == [tag |-> "DottedList", items |-> items, tail |-> tail]

Number(n) == [tag |-> "Number", n |-> n]

\* The text of a string is kept as its sequence of characters.
String(s) == [tag |-> "String", s |-> s]

Bool(b) == [tag |-> "Bool", b |-> b]

PrimitiveFunc(id) == [tag |-> "PrimitiveFunc", id |-> id]

IOFunc(id) == [tag |-> "IOFunc", id |-> id]

\* vararg is an Option<String>: <<>> is None, <<name>> is Some(name).
Func(params, vararg, body, closure) ==
    [tag |-> "Func", params |-> params, vararg |-> vararg,
     body |-> body, closure |-> closure]

\* A handle into the environment's table of open ports.
Port(port_id) == [tag |-> "Port", port_id |-> port_id]

QUOTE == "quote"

----------------------------------------------------------------------------
(* Errors (error.rs) and the outcome of a call                             *)

NumArgs(n, args) == [kind |-> "NumArgs", expected |-> n, args |-> args]

TypeMismatch(expected, found) ==
    [kind |-> "TypeMismatch", want |-> expected, found |-> found]

BadSpecialForm(msg, form) == [kind |-> "BadSpecialForm", msg |-> msg, form |-> form]

NotFunction(val) == [kind |-> "NotFunction", val |-> val]

UnboundVar(msg, name) == [kind |-> "UnboundVar", msg |-> msg, name |-> name]

EmptyBody == [kind |-> "EmptyBody"]

IOError == [kind |-> "IO"]

PortError(msg) == [kind |-> "Port", msg |-> msg]

Ok(v) == [st |-> "Ok", v |-> v]

Err(e) == [st |-> "Err", e |-> e]

\* A panic unwinds the whole process; it is no value of Result.
Panic(msg) == [st |-> "Panic", msg |-> msg]

----------------------------------------------------------------------------
(* Environment (env.rs)                                                    *)

EmptyMap == [x \in {} |-> 0]

insert(map, key, val) ==
    [x \in (DOMAIN map) \cup {key} |-> IF x = key THEN val ELSE map[x]]

Closure(m) == [vars |-> m]

DefaultEnv == [vals |-> <<>>, vars |-> EmptyMap, next_port_id |-> 0, ports |-> EmptyMap]

\* Slots are indexed from 0 in the source; vals[i + 1] is slot i.
get_var(e, var) ==
    IF var \in DOMAIN e.vars
    THEN Ok(e.vals[e.vars[var] + 1])
    ELSE Err(UnboundVar("Getting an unbound variable", var))

\* A set_var that gives the name a slot of its own instead of writing the
\* slot it shares.
set_var_copy(e, var, val) ==
    IF var \in DOMAIN e.vars
    THEN [env |-> [e EXCEPT !.vars = insert(e.vars, var, Len(e.vals)),
                            !.vals = Append(e.vals, val)],
          res |-> Ok(val)]
    ELSE [env |-> e, res |-> Err(UnboundVar("Setting an unbound var", var))]

\* A set_var that defines the name when it is not bound.
set_var_implicit(e, var, val) ==
    IF var \in DOMAIN e.vars
    THEN [env |-> [e EXCEPT !.vals[e.vars[var] + 1] = val], res |-> Ok(val)]
    ELSE [env |-> [e EXCEPT !.vars = insert(e.vars, var, Len(e.vals)),
                            !.vals = Append(e.vals, val)],
          res |-> Ok(val)]

\* set_var changes the environment and returns a result: both are given.
set_var(e, var, val) ==
    IF var \in DOMAIN e.vars
    THEN [env |-> [e EXCEPT !.vals[e.vars[var] + 1] = val], res |-> Ok(val)]
    ELSE [env |-> e, res |-> Err(UnboundVar("Setting an unbound var", var))]

\* A define_var that writes the slot the name already has, when it has one.
define_var_reuse(e, var, val) ==
    IF var \in DOMAIN e.vars
    THEN [e EXCEPT !.vals[e.vars[var] + 1] = val]
    ELSE [e EXCEPT !.vars = insert(e.vars, var, Len(e.vals)),
                   !.vals = Append(e.vals, val)]

define_var(e, var, val) ==
    LET i == Len(e.vals)
    IN  [e EXCEPT !.vars = insert(e.vars, var, i), !.vals = Append(e.vals, val)]

make_closure(e) == Closure(e.vars)

\* A with_closure in which the live entries shadow the snapshot's.
with_closure_live_wins(e, closure) ==
    [e EXCEPT !.vars =
        [x \in (DOMAIN e.vars) \cup (DOMAIN closure.vars) |->
            IF x \in DOMAIN e.vars THEN e.vars[x] ELSE closure.vars[x]]]

\* A with_closure that replaces the live mapping by the snapshot.
with_closure_replaces(e, closure) == [e EXCEPT !.vars = closure.vars]

with_closure(e, closure) ==
    [e EXCEPT !.vars =
        [x \in (DOMAIN e.vars) \cup (DOMAIN closure.vars) |->
            IF x \in DOMAIN closure.vars THEN closure.vars[x] ELSE e.vars[x]]]

\* A load_closure that merges the snapshot into the live mapping, as
\* with_closure does, instead of replacing the mapping.
load_closure_merge(e, closure) == with_closure(e, closure)

\* A load_closure that also gives back the slots past the last one the
\* restored mapping names.
load_closure_truncates(e, closure) ==
    LET used == {closure.vars[x] + 1 : x \in DOMAIN closure.vars}
        len == CHOOSE n \in used \cup {0} : \A m \in used : m <= n
    IN  [e EXCEPT !.vars = closure.vars,
                  !.vals = SubSeq(e.vals, 1, IF len < Len(e.vals) THEN len ELSE Len(e.vals))]

load_closure(e, closure) == [e EXCEPT !.vars = closure.vars]

\* The one file of the model's file system is "lib": File::open succeeds on it
\* and fails on every other path.
LibPath == <<"l", "i", "b">>

FileExists(path) == path = LibPath

\* The two variants of Port; the stream itself is left out.
ReadPort(path) == [dir |-> "read", path |-> path]

WritePort(path) == [dir |-> "write", path |-> path]

\* A make_read_port that gives out the least handle that is not open.
make_read_port_reuses(e, path) ==
    IF ~FileExists(path) THEN [env |-> e, res |-> Err(IOError)]
    ELSE LET free == {i \in 0..e.next_port_id : i \notin DOMAIN e.ports}
             port_id == CHOOSE i \in free : \A j \in free : i <= j
         IN  [env |-> [e EXCEPT !.next_port_id = e.next_port_id + 1,
                                !.ports = insert(e.ports, port_id, ReadPort(path))],
              res |-> Ok(Port(port_id))]

make_read_port(e, path) ==
    IF ~FileExists(path) THEN [env |-> e, res |-> Err(IOError)]
    ELSE LET port_id == e.next_port_id
         IN  [env |-> [e EXCEPT !.next_port_id = port_id + 1,
                                !.ports = insert(e.ports, port_id, ReadPort(path))],
              res |-> Ok(Port(port_id))]

\* As the source has it, the file is opened with File::open here too.
make_write_port(e, path) ==
    IF ~FileExists(path) THEN [env |-> e, res |-> Err(IOError)]
    ELSE LET port_id == e.next_port_id
         IN  [env |-> [e EXCEPT !.next_port_id = port_id + 1,
                                !.ports = insert(e.ports, port_id, WritePort(path))],
              res |-> Ok(Port(port_id))]

\* HashMap::remove: nothing happens when the handle is not in the table.
close_port(e, port_id) ==
    [env |-> [e EXCEPT !.ports = [x \in (DOMAIN e.ports) \ {port_id} |-> e.ports[x]]],
     res |-> Ok(Bool(TRUE))]

get_read_port(e, port_id) ==
    IF port_id \in DOMAIN e.ports /\ e.ports[port_id].dir = "read"
    THEN Ok(e.ports[port_id])
    ELSE Err(PortError("Port was not opened, was closed or is not a read port"))

get_write_port(e, port_id) ==
    IF port_id \in DOMAIN e.ports /\ e.ports[port_id].dir = "write"
    THEN Ok(e.ports[port_id])
    ELSE Err(PortError("Port was not opened, was closed or is not a write port"))

\* The names primitive_bindings defines, in its order, with what each is bound to.
PrimitiveTable ==
    << <<"+", PrimitiveFunc("Add")>>, <<"-", PrimitiveFunc("Sub")>>,
       <<"*", PrimitiveFunc("Mul")>>, <<"/", PrimitiveFunc("Div")>>,
       <<"mod", PrimitiveFunc("Rem")>>, <<"quotient", PrimitiveFunc("Div")>>,
       <<"remainder", PrimitiveFunc("Rem")>>,
       <<"=", PrimitiveFunc("Eq")>>, <<"<", PrimitiveFunc("Lt")>>,
       <<">", PrimitiveFunc("Gt")>>, <<"/=", PrimitiveFunc("Ne")>>,
       <<">=", PrimitiveFunc("Ge")>>, <<"<=", PrimitiveFunc("Le")>>,
       <<"&&", PrimitiveFunc("And")>>, <<"||", PrimitiveFunc("Or")>>,
       <<"string=?", PrimitiveFunc("StringEq")>>, <<"string<?", PrimitiveFunc("StringLt")>>,
       <<"string>?", PrimitiveFunc("StringGt")>>, <<"string<=?", PrimitiveFunc("StringLe")>>,
       <<"string>=?", PrimitiveFunc("StringGe")>>,
       <<"car", PrimitiveFunc("Car")>>, <<"cdr", PrimitiveFunc("Cdr")>>,
       <<"cons", PrimitiveFunc("Cons")>>,
       <<"eq?", PrimitiveFunc("Eqv")>>, <<"eqv?", PrimitiveFunc("Eqv")>>,
       <<"equal?", PrimitiveFunc("Equal")>>,
       <<"apply", IOFunc("Apply")>>,
       <<"open-input-file", IOFunc("MakeReadPort")>>,
       <<"open-output-file", IOFunc("MakeWritePort")>>,
       <<"close-input-port", IOFunc("ClosePort")>>,
       <<"close-output-port", IOFunc("ClosePort")>>,
       <<"read", IOFunc("Read")>>, <<"write", IOFunc("Write")>>,
       <<"read-contents", IOFunc("ReadContents")>>,
       <<"read-all", IOFunc("ReadAll")>> >>

RECURSIVE define_all(_, _)
define_all(e, table) ==
    IF table = <<>> THEN e
    ELSE define_all(define_var(e, Head(table)[1], Head(table)[2]), Tail(table))

primitive_bindings == define_all(DefaultEnv, PrimitiveTable)

----------------------------------------------------------------------------
(* Primitive operations (primitive.rs)                                     *)

Digits == <<"0", "1", "2", "3", "4", "5", "6", "7", "8", "9">>

IsDigit(c) == \E i \in 1..Len(Digits) : Digits[i] = c

DigitVal(c) == (CHOOSE i \in 1..Len(Digits) : Digits[i] = c) - 1

RECURSIVE digits_value(_, _)
digits_value(acc, cs) ==
    IF cs = <<>> THEN acc ELSE digits_value(acc * 10 + DigitVal(Head(cs)), Tail(cs))

\* str::parse::<i64>: an optional sign, then one or more decimal digits.
parse_i64(s) ==
    LET signed == s # <<>> /\ Head(s) \in {"+", "-"}
        body == IF signed THEN Tail(s) ELSE s
    IN  IF body = <<>> \/ \E i \in 1..Len(body) : ~IsDigit(body[i])
        THEN <<>>
        ELSE IF signed /\ Head(s) = "-"
             THEN <<0 - digits_value(0, body)>>
             ELSE <<digits_value(0, body)>>

as_number(val) ==
    CASE val.tag = "Number" -> Ok(val.n)
      [] val.tag = "String" ->
            IF parse_i64(val.s) = <<>>
            THEN Err(TypeMismatch("number", val))
            ELSE Ok(parse_i64(val.s)[1])
      [] OTHER -> Err(TypeMismatch("number", val))

RECURSIVE nat_chars(_)
nat_chars(n) ==
    IF n < 10 THEN <<Digits[n + 1]>>
    ELSE Append(nat_chars(n \div 10), Digits[(n % 10) + 1])

\* i64::to_string
int_chars(n) == IF n < 0 THEN <<"-">> \o nat_chars(0 - n) ELSE nat_chars(n)

as_string(val) ==
    CASE val.tag = "String" -> Ok(val.s)
      [] val.tag = "Number" -> Ok(int_chars(val.n))
      [] val.tag = "Bool" ->
            Ok(IF val.b THEN <<"t", "r", "u", "e">> ELSE <<"f", "a", "l", "s", "e">>)
      [] OTHER -> Err(TypeMismatch("string", val))

as_bool(val) ==
    CASE val.tag = "Bool" -> Ok(val.b)
      [] OTHER -> Err(TypeMismatch("bool", val))

\* The characters the model's strings are written in, in code point order.
Alphabet ==
    <<" ", "+", "-", "0", "1", "2", "3", "4", "5", "6", "7", "8", "9",
      "A", "S", "T", "a", "b", "c", "e", "f", "g", "h", "i", "l", "n", "r",
      "s", "t", "u">>

CharCode(c) == CHOOSE i \in 1..Len(Alphabet) : Alphabet[i] = c

\* String's Ord: lexicographic on the characters, a proper prefix is smaller.
RECURSIVE str_lt(_, _)
str_lt(a, b) ==
    IF b = <<>> THEN FALSE
    ELSE IF a = <<>> THEN TRUE
    ELSE IF Head(a) = Head(b) THEN str_lt(Tail(a), Tail(b))
    ELSE CharCode(Head(a)) < CharCode(Head(b))

\* The closure f handed to bool_binop, named by the primitive's id.
compare(id, lhs, rhs) ==
    CASE id = "Eq" -> lhs = rhs
      [] id = "Lt" -> lhs < rhs
      [] id = "Gt" -> lhs > rhs
      [] id = "Ne" -> lhs # rhs
      [] id = "Ge" -> lhs >= rhs
      [] id = "Le" -> lhs <= rhs
      [] id = "And" -> lhs /\ rhs
      [] id = "Or" -> lhs \/ rhs
      [] id = "StringEq" -> lhs = rhs
      [] id = "StringLt" -> str_lt(lhs, rhs)
      [] id = "StringGt" -> str_lt(rhs, lhs)
      [] id = "StringLe" -> ~str_lt(rhs, lhs)
      [] id = "StringGe" -> ~str_lt(lhs, rhs)

\* The coercion c handed to bool_binop, named by its kind.
coerce(kind, val) ==
    CASE kind = "number" -> as_number(val)
      [] kind = "string" -> as_string(val)
      [] kind = "bool" -> as_bool(val)

\* A bool_binop that coerces the right operand before the left one.
bool_binop_rhs_first(vals, kind, id) ==
    IF Len(vals) = 2
    THEN LET lhs == coerce(kind, vals[1])
             rhs == coerce(kind, vals[2])
         IN  IF rhs.st = "Err" THEN rhs
             ELSE IF lhs.st = "Err" THEN lhs
             ELSE Ok(Bool(compare(id, lhs.v, rhs.v)))
    ELSE Err(NumArgs(2, vals))

bool_binop(vals, kind, id) ==
    IF Len(vals) = 2
    THEN LET lhs == coerce(kind, vals[1])
             rhs == coerce(kind, vals[2])
         IN  IF lhs.st = "Err" THEN lhs
             ELSE IF rhs.st = "Err" THEN rhs
             ELSE Ok(Bool(compare(id, lhs.v, rhs.v)))
    ELSE Err(NumArgs(2, vals))

numeric_bool_binop(vals, id) == bool_binop(vals, "number", id)

bool_bool_binop(vals, id) == bool_binop(vals, "bool", id)

string_bool_binop(vals, id) == bool_binop(vals, "string", id)

Abs(n) == IF n < 0 THEN 0 - n ELSE n

\* i64 division truncates toward zero; the remainder has the dividend's sign.
trunc_div(a, b) ==
    IF (a < 0) = (b < 0) THEN Abs(a) \div Abs(b) ELSE 0 - (Abs(a) \div Abs(b))

\* An arith whose entry for * was copied from + and not changed.
arith_mul_as_add(id, acc, val) ==
    CASE id \in {"Add", "Mul"} -> Ok(acc + val)
      [] id = "Sub" -> Ok(acc - val)
      [] id = "Div" ->
            IF val = 0 THEN Panic("attempt to divide by zero")
            ELSE Ok(trunc_div(acc, val))
      [] id = "Rem" ->
            IF val = 0
            THEN Panic("attempt to calculate the remainder with a divisor of zero")
            ELSE Ok(acc - val * trunc_div(acc, val))

\* The closure f handed to numeric_binop.  i64 / and % panic on a zero divisor.
arith(id, acc, val) ==
    CASE id = "Add" -> Ok(acc + val)
      [] id = "Sub" -> Ok(acc - val)
      [] id = "Mul" -> Ok(acc * val)
      [] id = "Div" ->
            IF val = 0 THEN Panic("attempt to divide by zero")
            ELSE Ok(trunc_div(acc, val))
      [] id = "Rem" ->
            IF val = 0
            THEN Panic("attempt to calculate the remainder with a divisor of zero")
            ELSE Ok(acc - val * trunc_div(acc, val))

\* Iterator::reduce: the first number is the accumulator, f folds in the rest.
RECURSIVE reduce(_, _, _)
reduce(id, acc, rest) ==
    IF rest = <<>> THEN Ok(Number(acc))
    ELSE LET r == arith(id, acc, Head(rest))
         IN  IF r.st = "Panic" THEN r ELSE reduce(id, r.v, Tail(rest))

\* A numeric_binop that coerces its arguments before it counts them.
numeric_binop_coerces_first(vals, id) ==
    LET bad == {i \in 1..Len(vals) : as_number(vals[i]).st = "Err"}
        first == CHOOSE i \in bad : \A j \in bad : i <= j
        num_vals == [i \in 1..Len(vals) |-> as_number(vals[i]).v]
    IN  IF bad # {} THEN as_number(vals[first])
        ELSE IF Len(vals) < 2 THEN Err(NumArgs(2, vals))
        ELSE reduce(id, Head(num_vals), Tail(num_vals))

numeric_binop(vals, id) ==
    IF Len(vals) = 0 THEN Err(NumArgs(2, <<>>))
    ELSE IF Len(vals) = 1 THEN Err(NumArgs(2, <<vals[1]>>))
    ELSE LET bad == {i \in 1..Len(vals) : as_number(vals[i]).st = "Err"}
             first == CHOOSE i \in bad : \A j \in bad : i <= j
             num_vals == [i \in 1..Len(vals) |-> as_number(vals[i]).v]
         IN  IF bad # {} THEN as_number(vals[first])
             ELSE reduce(id, Head(num_vals), Tail(num_vals))

\* A car that takes the empty list for its own first item.
car_of_empty_is_empty(vals) ==
    IF Len(vals) # 1 THEN Err(NumArgs(1, vals))
    ELSE IF vals[1].tag \in {"List", "DottedList"} /\ vals[1].items # <<>>
         THEN Ok(Head(vals[1].items))
    ELSE IF vals[1] = List(<<>>) THEN Ok(vals[1])
         ELSE Err(TypeMismatch("pair", vals[1]))

car(vals) ==
    IF Len(vals) # 1 THEN Err(NumArgs(1, vals))
    ELSE IF vals[1].tag \in {"List", "DottedList"} /\ vals[1].items # <<>>
         THEN Ok(Head(vals[1].items))
         ELSE Err(TypeMismatch("pair", vals[1]))

cdr(vals) ==
    IF Len(vals) # 1 THEN Err(NumArgs(1, vals))
    ELSE IF vals[1].tag = "List" /\ vals[1].items # <<>>
         THEN Ok(List(Tail(vals[1].items)))
    ELSE IF vals[1].tag = "DottedList" /\ vals[1].items # <<>>
         THEN Ok(DottedList(Tail(vals[1].items), vals[1].tail))
         ELSE Err(TypeMismatch("pair", vals[1]))

\* A cons that puts the new item after the items of the list.
cons_appends(vals) ==
    IF Len(vals) # 2 THEN Err(NumArgs(2, vals))
    ELSE IF vals[2].tag = "List"
         THEN Ok(List(Append(vals[2].items, vals[1])))
    ELSE IF vals[2].tag = "DottedList"
         THEN Ok(DottedList(Append(vals[2].items, vals[1]), vals[2].tail))
         ELSE Ok(DottedList(<<vals[1]>>, vals[2]))

cons(vals) ==
    IF Len(vals) # 2 THEN Err(NumArgs(2, vals))
    ELSE IF vals[2].tag = "List"
         THEN Ok(List(<<vals[1]>> \o vals[2].items))
    ELSE IF vals[2].tag = "DottedList"
         THEN Ok(DottedList(<<vals[1]>> \o vals[2].items, vals[2].tail))
         ELSE Ok(DottedList(<<vals[1]>>, vals[2]))

\* eqv_impl on two values; eqv gives the NumArgs error for any other count.
RECURSIVE eqv_impl(_, _)
eqv_impl(a, b) ==
    CASE a.tag = "Bool" /\ b.tag = "Bool" -> a.b = b.b
      [] a.tag = "Number" /\ b.tag = "Number" -> a.n = b.n
      [] a.tag = "String" /\ b.tag = "String" -> a.s = b.s
      [] a.tag = "Atom" /\ b.tag = "Atom" -> a.name = b.name
      [] a.tag = "DottedList" /\ b.tag = "DottedList" ->
            eqv_impl(List(Append(a.items, a.tail)), List(Append(b.items, b.tail)))
      [] a.tag = "List" /\ b.tag = "List" ->
            IF Len(a.items) # Len(b.items) THEN FALSE
            ELSE \A i \in 1..Len(a.items) : eqv_impl(a.items[i], b.items[i])
      [] OTHER -> FALSE

eqv(vals) ==
    IF Len(vals) = 2 THEN Ok(Bool(eqv_impl(vals[1], vals[2])))
    ELSE Err(NumArgs(2, vals))

equal(vals) ==
    IF Len(vals) # 2 THEN Err(NumArgs(2, vals))
    ELSE LET a == vals[1]
             b == vals[2]
         IN  IF as_number(a).st = "Ok" /\ as_number(b).st = "Ok"
             THEN Ok(Bool(as_number(a).v = as_number(b).v))
             ELSE IF as_string(a).st = "Ok" /\ as_string(b).st = "Ok"
             THEN Ok(Bool(as_string(a).v = as_string(b).v))
             ELSE IF as_bool(a).st = "Ok" /\ as_bool(b).st = "Ok"
             THEN Ok(Bool(as_bool(a).v = as_bool(b).v))
             ELSE Ok(Bool(FALSE))

\* apply's dispatch on a PrimitiveFunc (eval.rs).
apply_primitive(id, args) ==
    CASE id \in {"Add", "Sub", "Mul", "Div", "Rem"} -> numeric_binop(args, id)
      [] id \in {"Eq", "Lt", "Gt", "Ne", "Ge", "Le"} -> numeric_bool_binop(args, id)
      [] id \in {"And", "Or"} -> bool_bool_binop(args, id)
      [] id \in {"StringEq", "StringLt", "StringGt", "StringLe", "StringGe"} ->
            string_bool_binop(args, id)
      [] id = "Car" -> car(args)
      [] id = "Cdr" -> cdr(args)
      [] id = "Cons" -> cons(args)
      [] id = "Eqv" -> eqv(args)
      [] id = "Equal" -> equal(args)

----------------------------------------------------------------------------
(* Display (value.rs, util.rs)                                             *)

RECURSIVE concat(_)
concat(strs) == IF strs = <<>> THEN "" ELSE Head(strs) \o concat(Tail(strs))

\* intersperse on strings already rendered: joined by one space.
RECURSIVE intersperse(_)
intersperse(xs) ==
    IF xs = <<>> THEN ""
    ELSE IF Len(xs) = 1 THEN xs[1]
    ELSE xs[1] \o " " \o intersperse(Tail(xs))

RECURSIVE to_string(_)
to_string(val) ==
    CASE val.tag = "String" -> "\"" \o concat(val.s) \o "\""
      [] val.tag = "Atom" -> val.name
      [] val.tag = "Number" -> ToString(val.n)
      [] val.tag = "Bool" -> IF val.b THEN "#t" ELSE "#f"
      [] val.tag = "List" ->
            "(" \o intersperse([i \in 1..Len(val.items) |-> to_string(val.items[i])]) \o ")"
      [] val.tag = "DottedList" ->
            "(" \o intersperse([i \in 1..Len(val.items) |-> to_string(val.items[i])])
                \o " . " \o to_string(val.tail) \o ")"
      [] val.tag = "PrimitiveFunc" -> "<primitive>"
      [] val.tag = "Func" ->
            "(lambda (" \o intersperse(val.params)
                \o (IF val.vararg = <<>> THEN "" ELSE " . " \o val.vararg[1]) \o ") ...)"

----------------------------------------------------------------------------
(* The loader: load(path) gives the forms of a file, or an I/O error.      *)

\* The forms of the file "lib": (define (twice n) (+ n n)) 0
LibForms ==
    << List(<<Atom("define"), List(<<Atom("twice"), Atom("n")>>),
              List(<<Atom("+"), Atom("n"), Atom("n")>>)>>),
       Number(0) >>

load(path) == IF path = LibPath THEN Ok(LibForms) ELSE Err(IOError)

----------------------------------------------------------------------------
(* eval's match on the form (eval.rs): the arms are tried in this order.   *)

list_shape(vals) ==
    LET n == Len(vals)
        head(name) == n >= 1 /\ vals[1].tag = "Atom" /\ vals[1].name = name
    IN  IF n = 2 /\ head(QUOTE) THEN "quote"
        ELSE IF n = 4 /\ head("if") THEN "if"
        ELSE IF n = 3 /\ head("set!") /\ vals[2].tag = "Atom" THEN "set!"
        ELSE IF n = 3 /\ head("define") /\ vals[2].tag = "Atom" THEN "define"
        ELSE IF n >= 2 /\ head("define") /\ vals[2].tag = "List" THEN "define_func"
        ELSE IF n >= 2 /\ head("define") /\ vals[2].tag = "DottedList"
             THEN "define_func_vararg"
        ELSE IF n >= 2 /\ head("lambda") /\ vals[2].tag = "List" THEN "lambda"
        ELSE IF n >= 2 /\ head("lambda") /\ vals[2].tag = "DottedList"
             THEN "lambda_dotted"
        ELSE IF n >= 2 /\ head("lambda") /\ vals[2].tag = "Atom" THEN "lambda_vararg"
        ELSE IF n = 2 /\ head("load") /\ vals[2].tag = "String" THEN "load"
        ELSE IF n >= 1 THEN "application"
        ELSE "unrecognized"

form_shape(form) ==
    CASE form.tag \in {"String", "Number", "Bool"} -> "literal"
      [] form.tag = "Atom" -> "atom"
      [] form.tag = "List" -> list_shape(form.items)
      [] OTHER -> "todo"

\* params: every parameter form rendered by to_string.
param_names(args) == [i \in 1..Len(args) |-> to_string(args[i])]

----------------------------------------------------------------------------
(* The machine                                                             *)

Idle == [mode |-> "idle"]

Eval(form) == [mode |-> "eval", form |-> form]

Apply(func, args) == [mode |-> "apply", func |-> func, args |-> args]

Ret(res) == [mode |-> "ret", res |-> res]

Panicked(msg) == [mode |-> "panicked", msg |-> msg]

Exited == [mode |-> "exited"]

Evaluating(shape) == ctrl.mode = "eval" /\ form_shape(ctrl.form) = shape

Returning(k) == ctrl.mode = "ret" /\ stack # <<>> /\ Head(stack).k = k

ReturningOk(k) == Returning(k) /\ ctrl.res.st = "Ok"

Push(frame) == <<frame>> \o stack

\* eval.rs 198-199: the caller snapshots its mapping, then calls apply.
Call(func, args) ==
    /\ ctrl' = Apply(func, args)
    /\ stack' = <<[k |-> "call", closure |-> make_closure(env)]>> \o Tail(stack)

----------------------------------------------------------------------------
(* eval (eval.rs 77-210), one action per arm of its match                  *)

\* String, Number, Bool: the form is its own value.
EvalLiteral ==
    /\ Evaluating("literal")
    /\ ctrl' = Ret(Ok(ctrl.form))
    /\ UNCHANGED <<env, stack, hist, output>>

EvalAtom ==
    /\ Evaluating("atom")
    /\ ctrl' = Ret(get_var(env, ctrl.form.name))
    /\ UNCHANGED <<env, stack, hist, output>>

\* A quote that evaluates what it quotes.
EvalQuote_evaluates ==
    /\ Evaluating("quote")
    /\ ctrl' = Eval(ctrl.form.items[2])
    /\ UNCHANGED <<env, stack, hist, output>>

EvalQuote ==
    /\ Evaluating("quote")
    /\ ctrl' = Ret(Ok(ctrl.form.items[2]))
    /\ UNCHANGED <<env, stack, hist, output>>

EvalIf ==
    /\ Evaluating("if")
    /\ ctrl' = Eval(ctrl.form.items[2])
    /\ stack' = Push([k |-> "if", conseq |-> ctrl.form.items[3],
                      alt |-> ctrl.form.items[4]])
    /\ UNCHANGED <<env, hist, output>>

EvalSet ==
    /\ Evaluating("set!")
    /\ ctrl' = Eval(ctrl.form.items[3])
    /\ stack' = Push([k |-> "set!", var |-> ctrl.form.items[2].name])
    /\ UNCHANGED <<env, hist, output>>

EvalDefine ==
    /\ Evaluating("define")
    /\ ctrl' = Eval(ctrl.form.items[3])
    /\ stack' = Push([k |-> "define", var |-> ctrl.form.items[2].name])
    /\ UNCHANGED <<env, hist, output>>

\* (define (name args...) body...) and (define (name args... . vararg) body...)
EvalDefineFunc ==
    /\ ctrl.mode = "eval"
    /\ form_shape(ctrl.form) \in {"define_func", "define_func_vararg"}
    /\ LET name_args == ctrl.form.items[2].items
           vararg == IF ctrl.form.items[2].tag = "DottedList"
                     THEN <<to_string(ctrl.form.items[2].tail)>>
                     ELSE <<>>
           body == SubSeq(ctrl.form.items, 3, Len(ctrl.form.items))
       IN  IF name_args # <<>> /\ Head(name_args).tag = "Atom"
           THEN LET func == Func(param_names(Tail(name_args)), vararg, body,
                                 make_closure(env))
                IN  /\ env' = define_var(env, Head(name_args).name, func)
                    /\ ctrl' = Ret(Ok(func))
           ELSE /\ env' = env
                /\ ctrl' = Ret(Err(BadSpecialForm("unrecognized special form", ctrl.form)))
    /\ UNCHANGED <<stack, hist, output>>

\* (lambda (params...) body...), (lambda (params... . vararg) body...),
\* (lambda vararg body...)
EvalLambda ==
    /\ ctrl.mode = "eval"
    /\ form_shape(ctrl.form) \in {"lambda", "lambda_dotted", "lambda_vararg"}
    /\ LET spec == ctrl.form.items[2]
           params == IF spec.tag = "Atom" THEN <<>> ELSE param_names(spec.items)
           vararg == CASE spec.tag = "List" -> <<>>
                       [] spec.tag = "DottedList" -> <<to_string(spec.tail)>>
                       [] spec.tag = "Atom" -> <<spec.name>>
           body == SubSeq(ctrl.form.items, 3, Len(ctrl.form.items))
       IN  ctrl' = Ret(Ok(Func(params, vararg, body, make_closure(env))))
    /\ UNCHANGED <<env, stack, hist, output>>

\* (load "path"): the forms of the file are evaluated in order.
EvalLoad ==
    /\ Evaluating("load")
    /\ LET vals == load(ctrl.form.items[2].s)
       IN  IF vals.st = "Err"
           THEN ctrl' = Ret(vals) /\ stack' = stack
           ELSE IF vals.v = <<>>
           THEN ctrl' = Ret(Err(EmptyBody)) /\ stack' = stack
           ELSE /\ ctrl' = Eval(Head(vals.v))
                /\ stack' = Push([k |-> "load", rest |-> Tail(vals.v)])
    /\ UNCHANGED <<env, hist, output>>

\* [func, args @ ..]: the function position is evaluated first.
EvalApplication ==
    /\ Evaluating("application")
    /\ ctrl' = Eval(Head(ctrl.form.items))
    /\ stack' = Push([k |-> "func", args |-> Tail(ctrl.form.items)])
    /\ UNCHANGED <<env, hist, output>>

\* The empty list matches no arm of the inner match.
EvalUnrecognized ==
    /\ Evaluating("unrecognized")
    /\ ctrl' = Ret(Err(BadSpecialForm("unrecognized special form", ctrl.form)))
    /\ UNCHANGED <<env, stack, hist, output>>

\* Every other variant of Value reaches todo!(), which panics.
EvalTodo ==
    /\ Evaluating("todo")
    /\ ctrl' = Panicked("not yet implemented")
    /\ UNCHANGED <<env, stack, hist, output>>

----------------------------------------------------------------------------
(* eval resumed with the result of a sub-evaluation                        *)

\* A body loop that drops the error of a form that is not the last.
RetError_body_goes_on ==
    /\ ctrl.mode = "ret" /\ ctrl.res.st = "Err"
    /\ stack # <<>> /\ Head(stack).k # "call"
    /\ IF Head(stack).k = "body" /\ Head(stack).rest # <<>>
       THEN /\ ctrl' = Eval(Head(Head(stack).rest))
            /\ stack' = <<[k |-> "body", rest |-> Tail(Head(stack).rest)]>> \o Tail(stack)
       ELSE /\ ctrl' = ctrl
            /\ stack' = Tail(stack)
    /\ UNCHANGED <<env, hist, output>>

\* The ? operator: an error leaves the waiting activation at once.
RetError ==
    /\ ctrl.mode = "ret" /\ ctrl.res.st = "Err"
    /\ stack # <<>> /\ Head(stack).k # "call"
    /\ stack' = Tail(stack)
    /\ UNCHANGED <<env, ctrl, hist, output>>

\* A conditional that takes the consequent for the boolean true alone.
RetIf_only_true ==
    /\ ReturningOk("if")
    /\ ctrl' = IF ctrl.res.v.tag = "Bool" /\ ctrl.res.v.b = TRUE
               THEN Eval(Head(stack).conseq)
               ELSE Eval(Head(stack).alt)
    /\ stack' = Tail(stack)
    /\ UNCHANGED <<env, hist, output>>

RetIf ==
    /\ ReturningOk("if")
    /\ ctrl' = IF ctrl.res.v.tag = "Bool" /\ ctrl.res.v.b = FALSE
               THEN Eval(Head(stack).alt)
               ELSE Eval(Head(stack).conseq)
    /\ stack' = Tail(stack)
    /\ UNCHANGED <<env, hist, output>>

RetSet ==
    /\ ReturningOk("set!")
    /\ LET r == set_var(env, Head(stack).var, ctrl.res.v)
       IN  env' = r.env /\ ctrl' = Ret(r.res)
    /\ stack' = Tail(stack)
    /\ UNCHANGED <<hist, output>>

RetDefine ==
    /\ ReturningOk("define")
    /\ env' = define_var(env, Head(stack).var, ctrl.res.v)
    /\ ctrl' = Ret(Ok(ctrl.res.v))
    /\ stack' = Tail(stack)
    /\ UNCHANGED <<hist, output>>

\* An application that evaluates its last argument before the others.
RetFunc_last_argument_first ==
    /\ ReturningOk("func")
    /\ LET args == Head(stack).args
       IN  IF args = <<>>
           THEN Call(ctrl.res.v, <<>>)
           ELSE /\ ctrl' = Eval(args[Len(args)])
                /\ stack' = <<[k |-> "args", func |-> ctrl.res.v, done |-> <<>>,
                               rest |-> SubSeq(args, 1, Len(args) - 1)]>> \o Tail(stack)
    /\ UNCHANGED <<env, hist, output>>

\* The function position has its value: the arguments follow, left to right.
RetFunc ==
    /\ ReturningOk("func")
    /\ IF Head(stack).args = <<>>
       THEN Call(ctrl.res.v, <<>>)
       ELSE /\ ctrl' = Eval(Head(Head(stack).args))
            /\ stack' = <<[k |-> "args", func |-> ctrl.res.v, done |-> <<>>,
                           rest |-> Tail(Head(stack).args)]>> \o Tail(stack)
    /\ UNCHANGED <<env, hist, output>>

RetArg ==
    /\ ReturningOk("args")
    /\ LET top == Head(stack)
           done == Append(top.done, ctrl.res.v)
       IN  IF top.rest = <<>>
           THEN Call(top.func, done)
           ELSE /\ ctrl' = Eval(Head(top.rest))
                /\ stack' = <<[top EXCEPT !.done = done, !.rest = Tail(top.rest)]>>
                            \o Tail(stack)
    /\ UNCHANGED <<env, hist, output>>

\* eval.rs 200-201: apply has returned, a value or an error; the caller's
\* mapping is put back and apply's result is the result.
RetCall ==
    /\ Returning("call")
    /\ env' = load_closure(env, Head(stack).closure)
    /\ stack' = Tail(stack)
    /\ UNCHANGED <<ctrl, hist, output>>

\* apply's loop over the body: the value of the last form is the result.
RetBody ==
    /\ ReturningOk("body")
    /\ IF Head(stack).rest = <<>>
       THEN ctrl' = ctrl /\ stack' = Tail(stack)
       ELSE /\ ctrl' = Eval(Head(Head(stack).rest))
            /\ stack' = <<[k |-> "body", rest |-> Tail(Head(stack).rest)]>> \o Tail(stack)
    /\ UNCHANGED <<env, hist, output>>

\* load's loop over the forms of the file.
RetLoad ==
    /\ ReturningOk("load")
    /\ IF Head(stack).rest = <<>>
       THEN ctrl' = ctrl /\ stack' = Tail(stack)
       ELSE /\ ctrl' = Eval(Head(Head(stack).rest))
            /\ stack' = <<[k |-> "load", rest |-> Tail(Head(stack).rest)]>> \o Tail(stack)
    /\ UNCHANGED <<env, hist, output>>

----------------------------------------------------------------------------
(* apply (eval.rs 10-75)                                                   *)

\* for i in 0..params.len(): define params[i] as args[i].  The caller gives
\* as many arguments as there are parameters to bind.
RECURSIVE bind_params(_, _, _)
bind_params(e, params, args) ==
    IF params = <<>> THEN e
    ELSE bind_params(define_var(e, Head(params), Head(args)), Tail(params), Tail(args))

\* Value::List(args[last..]), last being the index of the last parameter
\* bound by the loop, 0 when the loop did not run.
vararg_list(params, args) ==
    LET last == IF params = <<>> THEN 0 ELSE Len(params) - 1
    IN  List(SubSeq(args, last + 1, Len(args)))

\* The environment the body runs in: the captured mapping merged in, then the
\* parameters and the vararg defined.
enter_func(e, func, args) ==
    LET bound == bind_params(with_closure(e, func.closure), func.params,
                             SubSeq(args, 1, Len(func.params)))
    IN  IF func.vararg = <<>> THEN bound
        ELSE define_var(bound, func.vararg[1], vararg_list(func.params, args))

\* An arity check that only rejects too many arguments.
arity_mismatch_too_many(func, args) ==
    Len(args) > Len(func.params) /\ func.vararg = <<>>

arity_mismatch(func, args) == Len(func.params) # Len(args) /\ func.vararg = <<>>

ApplyPrimitive ==
    /\ ctrl.mode = "apply" /\ ctrl.func.tag = "PrimitiveFunc"
    /\ LET r == apply_primitive(ctrl.func.id, ctrl.args)
       IN  ctrl' = IF r.st = "Panic" THEN Panicked(r.msg) ELSE Ret(r)
    /\ UNCHANGED <<env, stack, hist, output>>

ApplyFunc ==
    /\ ctrl.mode = "apply" /\ ctrl.func.tag = "Func"
    /\ LET func == ctrl.func
           args == ctrl.args
       IN  IF arity_mismatch(func, args)
           THEN /\ ctrl' = Ret(Err(NumArgs(Len(func.params), args)))
                /\ UNCHANGED <<env, stack>>
           ELSE IF Len(args) < Len(func.params)
           THEN \* args[i] with i past the end of args
                /\ ctrl' = Panicked("index out of bounds")
                /\ env' = bind_params(with_closure(env, func.closure),
                                      SubSeq(func.params, 1, Len(args)), args)
                /\ UNCHANGED stack
           ELSE /\ env' = enter_func(env, func, args)
                /\ IF func.body = <<>>
                   THEN ctrl' = Ret(Err(EmptyBody)) /\ UNCHANGED stack
                   ELSE /\ ctrl' = Eval(Head(func.body))
                        /\ stack' = Push([k |-> "body", rest |-> Tail(func.body)])
    /\ UNCHANGED <<hist, output>>

ApplyNotFunction ==
    /\ ctrl.mode = "apply"
    /\ ctrl.func.tag \notin {"PrimitiveFunc", "IOFunc", "Func"}
    /\ ctrl' = Ret(Err(NotFunction(ctrl.func)))
    /\ UNCHANGED <<env, stack, hist, output>>

----------------------------------------------------------------------------
(* The lines the front end is given                                        *)

FormLine(form) == [kind |-> "form", form |-> form]

QuitLine == [kind |-> "quit"]

\* A line parse_expr rejects.
UnparsableLine == [kind |-> "unparsable"]

Lines(forms) == [i \in 1..Len(forms) |-> FormLine(forms[i])]

\* (name a1 ... an) with number arguments
CallNumbers(name, ns) == List(<<Atom(name)>> \o [i \in 1..Len(ns) |-> Number(ns[i])])

\* (define (counter inc) (lambda (x) (set! inc (+ x inc)) inc))
DefCounter ==
    List(<<Atom("define"), List(<<Atom("counter"), Atom("inc")>>),
           List(<<Atom("lambda"), List(<<Atom("x")>>),
                  List(<<Atom("set!"), Atom("inc"),
                         List(<<Atom("+"), Atom("x"), Atom("inc")>>)>>),
                  Atom("inc")>>)>>)

\* (define my-count (counter 5))
DefMyCount == List(<<Atom("define"), Atom("my-count"), CallNumbers("counter", <<5>>)>>)

MaxCounterCalls == 3

CounterArgs == {3, 5, 6}

CounterCalls(ns) == [i \in 1..Len(ns) |-> CallNumbers("my-count", <<ns[i]>>)]

CounterScripts ==
    {Lines(<<DefCounter, DefMyCount>> \o CounterCalls(ns)) :
        ns \in UNION {[1..n -> CounterArgs] : n \in 0..MaxCounterCalls}}

\* (define (factorial x) (if (= x 1) 1 (* x (factorial (- x 1)))))
DefFactorial ==
    List(<<Atom("define"), List(<<Atom("factorial"), Atom("x")>>),
           List(<<Atom("if"), List(<<Atom("="), Atom("x"), Number(1)>>), Number(1),
                  List(<<Atom("*"), Atom("x"),
                         List(<<Atom("factorial"),
                                List(<<Atom("-"), Atom("x"), Number(1)>>)>>)>>)>>)>>)

MaxFactorial == 10

FactorialScripts ==
    {Lines(<<DefFactorial, CallNumbers("factorial", <<n>>)>>) : n \in 1..MaxFactorial}

\* (define (f x y) (+ x y)) (f 1 2) (f 1 2 3) (f 1) x
ArityScript ==
    Lines(<<List(<<Atom("define"), List(<<Atom("f"), Atom("x"), Atom("y")>>),
                   List(<<Atom("+"), Atom("x"), Atom("y")>>)>>),
            CallNumbers("f", <<1, 2>>), CallNumbers("f", <<1, 2, 3>>),
            CallNumbers("f", <<1>>), Atom("x")>>)

ArityScripts == {ArityScript}

\* (+ y 2) (set! y 3) y (define y 5) (+ y 2) (set! y 3) y
UnboundScript ==
    Lines(<<List(<<Atom("+"), Atom("y"), Number(2)>>),
            List(<<Atom("set!"), Atom("y"), Number(3)>>),
            Atom("y"),
            List(<<Atom("define"), Atom("y"), Number(5)>>),
            List(<<Atom("+"), Atom("y"), Number(2)>>),
            List(<<Atom("set!"), Atom("y"), Number(3)>>),
            Atom("y")>>)

UnboundScripts == {UnboundScript}

ParamNames == <<"a", "b", "c", "d">>

MaxParams == 2

MaxArgs == 3

FirstNumbers(m) == [i \in 1..m |-> Number(i)]

FirstParams(n) == [i \in 1..n |-> Atom(ParamNames[i])]

\* ((lambda (a b . rest) rest) 1 2 3), for n parameters and m arguments
VarargCall(n, m) ==
    List(<<List(<<Atom("lambda"),
                  IF n = 0 THEN Atom("rest") ELSE DottedList(FirstParams(n), Atom("rest")),
                  Atom("rest")>>)>> \o FirstNumbers(m))

\* ((lambda (a b) 0) 1 2 3), for n parameters and m arguments
FixedCall(n, m) ==
    List(<<List(<<Atom("lambda"), List(FirstParams(n)), Number(0)>>)>> \o FirstNumbers(m))

\* (define (g a . rest) rest) (g 1 2 3)
DefinedVarargScript ==
    Lines(<<List(<<Atom("define"), DottedList(<<Atom("g"), Atom("a")>>, Atom("rest")),
                   Atom("rest")>>),
            CallNumbers("g", <<1, 2, 3>>)>>)

LambdaScripts ==
    {Lines(<<VarargCall(n, m)>>) : n \in 0..MaxParams, m \in 0..MaxArgs}
    \cup {Lines(<<FixedCall(n, m)>>) : n \in 0..MaxParams, m \in 0..MaxArgs}
    \cup {DefinedVarargScript}

DefX(n) == List(<<Atom("define"), Atom("x"), Number(n)>>)

SetX(n) == List(<<Atom("set!"), Atom("x"), Number(n)>>)

\* (define (getx) x)
DefGetX == List(<<Atom("define"), List(<<Atom("getx")>>), Atom("x")>>)

CallGetX == List(<<Atom("getx")>>)

\* A closure captures x; then x is defined again, and assigned.
RedefineScript ==
    Lines(<<DefX(1), DefGetX, DefX(2), CallGetX, SetX(7), CallGetX, Atom("x")>>)

\* A closure captures x; then x is assigned.
AssignScript == Lines(<<DefX(1), DefGetX, SetX(2), CallGetX, Atom("x")>>)

ShadowScripts == {RedefineScript, AssignScript}

\* () (1 . 2) (define (1 x) 2) (define (1 . x) 2) '(1 . 2)
FormScripts ==
    {Lines(<<List(<<>>)>>),
     Lines(<<DottedList(<<Number(1)>>, Number(2))>>),
     Lines(<<List(<<Atom("define"), List(<<Number(1), Atom("x")>>), Number(2)>>)>>),
     Lines(<<List(<<Atom("define"), DottedList(<<Number(1)>>, Atom("x")), Number(2)>>)>>),
     Lines(<<List(<<Atom(QUOTE), DottedList(<<Number(1)>>, Number(2))>>)>>),
     Lines(<<List(<<Atom("car"), DottedList(<<Number(1)>>, Number(2))>>)>>)}

ArithNames == {"+", "-", "*", "/", "mod", "quotient", "remainder"}

ArithArgs == {0, 1, 7}

\* (/ 7 0), and a form after it
ArithScripts ==
    {Lines(<<CallNumbers(op, <<a, b>>), Number(2)>>) :
        op \in ArithNames, a \in ArithArgs, b \in ArithArgs}
    \cup {Lines(<<CallNumbers("/", <<7, 1, 0>>)>>),
          Lines(<<CallNumbers("-", <<1, 7, 1>>)>>)}

\* (define (h x) (set! zz x)) (h 1) x
FailingCallScript ==
    Lines(<<List(<<Atom("define"), List(<<Atom("h"), Atom("x")>>),
                   List(<<Atom("set!"), Atom("zz"), Atom("x")>>)>>),
            CallNumbers("h", <<1>>), Atom("x")>>)

\* (define (sq x) (* x x)) (define (hyp x y) (+ (sq x) (sq y))) (hyp 2 3) x
NestedCallScript ==
    Lines(<<List(<<Atom("define"), List(<<Atom("sq"), Atom("x")>>),
                   List(<<Atom("*"), Atom("x"), Atom("x")>>)>>),
            List(<<Atom("define"), List(<<Atom("hyp"), Atom("x"), Atom("y")>>),
                   List(<<Atom("+"), List(<<Atom("sq"), Atom("x")>>),
                          List(<<Atom("sq"), Atom("y")>>)>>)>>),
            CallNumbers("hyp", <<2, 3>>), Atom("x")>>)

RestoreScripts == {FailingCallScript, NestedCallScript}

\* (1 2)  ((lambda ()))  (if (> 2 3) "no" "yes")  (load "lib") (twice 4)
\* (load "nope")  quit  an unparsable line, then 2
OtherScripts ==
    {Lines(<<CallNumbers("car", <<>>), List(<<Number(1), Number(2)>>)>>),
     Lines(<<List(<<List(<<Atom("lambda"), List(<<>>)>>)>>)>>),
     Lines(<<List(<<Atom("if"), CallNumbers(">", <<2, 3>>),
                    String(<<"n", "o">>), String(<<"y", "e", "s">>)>>)>>),
     Lines(<<List(<<Atom("load"), String(LibPath)>>), CallNumbers("twice", <<4>>)>>),
     Lines(<<List(<<Atom("load"), String(<<"n", "o", "p", "e">>)>>)>>),
     <<FormLine(Number(2)), QuitLine>>,
     <<UnparsableLine, FormLine(Number(2))>>}

Quoted(form) == List(<<Atom(QUOTE), form>>)

\* What the predicate of the conditional evaluates to, as the form that gives it.
IfPreds ==
    {Bool(FALSE), Bool(TRUE), Number(0), String(<<>>), Quoted(Atom("f")),
     Quoted(List(<<>>)), Quoted(List(<<Bool(FALSE)>>)), Quoted(Bool(FALSE))}

\* (define n 0)
\* (if ((lambda () (set! n (+ n 1)) P)) (define c 1) (define a 2))
\* n
IfScript(pred) ==
    Lines(<<List(<<Atom("define"), Atom("n"), Number(0)>>),
            List(<<Atom("if"),
                   List(<<List(<<Atom("lambda"), List(<<>>),
                                 List(<<Atom("set!"), Atom("n"),
                                        List(<<Atom("+"), Atom("n"), Number(1)>>)>>),
                                 pred>>)>>),
                   List(<<Atom("define"), Atom("c"), Number(1)>>),
                   List(<<Atom("define"), Atom("a"), Number(2)>>)>>),
            Atom("n")>>)

IfScripts == {IfScript(pred) : pred \in IfPreds}

\* What is quoted: data, and forms that would fail, define, assign or end the
\* process if they were evaluated.
QuoteForms ==
    {Atom("q"), Number(2), String(<<"a">>), Bool(FALSE), List(<<>>),
     List(<<Atom("define"), Atom("q"), Number(1)>>),
     List(<<Atom("set!"), Atom("car"), Number(1)>>),
     List(<<Atom("/"), Number(1), Number(0)>>),
     List(<<Atom("a"), List(<<Atom("define"), Atom("q"), Number(1)>>)>>),
     DottedList(<<Atom("a")>>, Atom("b")),
     Quoted(Atom("q")),
     List(<<Atom("if"), Bool(TRUE), Number(1), Number(2)>>)}

\* '(define q 1)  q  car
QuoteScript(form) == Lines(<<Quoted(form), Atom("q"), Atom("car")>>)

QuoteScripts == {QuoteScript(form) : form \in QuoteForms}

\* (car '())
CarOfEmpty == List(<<Atom("car"), Quoted(List(<<>>))>>)

DefLate == List(<<Atom("define"), Atom("late"), Number(2)>>)

\* Forms with a failing sub-form, each with the error it fails with.  What
\* follows the failing sub-form would define late or assign 9 to x.
FailingForms ==
    {<<List(<<Atom("+"), CarOfEmpty, DefLate>>), TypeMismatch("pair", List(<<>>))>>,
     <<List(<<Atom("+"), Atom("u"), DefLate>>),
       UnboundVar("Getting an unbound variable", "u")>>,
     <<List(<<Atom("u"), DefLate>>), UnboundVar("Getting an unbound variable", "u")>>,
     <<List(<<Atom("define"), Atom("late"), CarOfEmpty>>),
       TypeMismatch("pair", List(<<>>))>>,
     <<List(<<Atom("set!"), Atom("x"), CarOfEmpty>>), TypeMismatch("pair", List(<<>>))>>,
     <<List(<<Atom("if"), Atom("u"), DefLate, DefLate>>),
       UnboundVar("Getting an unbound variable", "u")>>,
     <<List(<<Atom("+"), Number(1),
              List(<<Atom("+"), Number(2), List(<<Atom("car"), Number(3)>>)>>),
              SetX(9)>>),
       TypeMismatch("pair", Number(3))>>,
     <<List(<<List(<<Atom("lambda"), List(<<Atom("p")>>),
                     List(<<Atom("car"), Atom("p")>>), SetX(9)>>),
              Quoted(List(<<>>))>>),
       TypeMismatch("pair", List(<<>>))>>,
     <<List(<<List(<<Atom("lambda"), List(<<Atom("x")>>),
                     List(<<Atom("cdr"), Atom("x")>>), Atom("x")>>),
              Number(4)>>),
       TypeMismatch("pair", Number(4))>>,
     <<List(<<Atom("x"), Number(5)>>), NotFunction(Number(1))>>}

\* (define x 1)  the failing form  late  x  (define late 3)
FailingScript(form) == Lines(<<DefX(1), form, Atom("late"), Atom("x"), DefLate>>)

FailingScripts == {FailingScript(f[1]) : f \in FailingForms}

\* ((lambda (a a) a) 1 2)   (define (dup b . b) b)   (lambda (c . c) c)
DuplicateScripts ==
    {Lines(<<List(<<List(<<Atom("lambda"), List(<<Atom("a"), Atom("a")>>), Atom("a")>>),
                    Number(1), Number(2)>>)>>),
     Lines(<<List(<<Atom("define"), DottedList(<<Atom("dup"), Atom("b")>>, Atom("b")),
                    Atom("b")>>)>>),
     Lines(<<List(<<Atom("lambda"), DottedList(<<Atom("c")>>, Atom("c")), Atom("c")>>)>>)}

\* (name 'v1 ... 'vn): the primitive applied to the values themselves
CallQuoted(name, vals) ==
    List(<<Atom(name)>> \o [i \in 1..Len(vals) |-> Quoted(vals[i])])

ComparisonNames ==
    {"=", "<", ">", "/=", ">=", "<=", "&&", "||",
     "string=?", "string<?", "string>?", "string<=?", "string>=?"}

CompareVals ==
    {Number(2), Number(3), String(<<"3">>), String(<<"a", "b">>),
     String(<<"a", "b", "c">>), String(<<"b", "b", "a">>),
     Bool(TRUE), Bool(FALSE), List(<<>>)}

\* Each comparison on every pair of the values, and on none, one and three.
CompareScripts ==
    {Lines(<<CallQuoted(op, <<a, b>>)>>) :
        op \in ComparisonNames, a \in CompareVals, b \in CompareVals}
    \cup {Lines(<<CallQuoted(op, args)>>) :
            op \in ComparisonNames,
            args \in {<<>>, <<Number(2)>>, <<List(<<>>)>>,
                      <<Number(2), Number(3), Number(3)>>,
                      <<List(<<>>), Number(2), Bool(TRUE)>>}}

AString == <<"A", " ", "s", "t", "r", "i", "n", "g">>

TheString == <<"T", "h", "e", " ", "s", "t", "r", "i", "n", "g">>

\* (define str "A string") (< str "The string") (string<? str "The string")
TypeScript ==
    Lines(<<List(<<Atom("define"), Atom("str"), String(AString)>>),
            List(<<Atom("<"), Atom("str"), String(TheString)>>),
            List(<<Atom("string<?"), Atom("str"), String(TheString)>>)>>)

\* No argument, and one argument of each kind.
FewArgs ==
    {<<>>, <<Number(0)>>, <<Number(7)>>, <<String(<<"3">>)>>, <<String(<<"a", "b">>)>>,
     <<Bool(TRUE)>>, <<List(<<>>)>>, <<Atom("q")>>,
     <<DottedList(<<Number(1)>>, Number(2))>>}

\* (+)  (/ 0)  (mod "ab")
FewArgsScript(op, args) == Lines(<<CallQuoted(op, args), Number(2)>>)

FewArgsScripts == {FewArgsScript(op, args) : op \in ArithNames, args \in FewArgs}

PairVals ==
    {List(<<>>), Number(1), String(<<"a", "b">>), String(<<>>), Bool(FALSE), Atom("q"),
     List(<<Number(1)>>), List(<<Atom("a"), Number(2)>>), List(<<List(<<>>)>>),
     DottedList(<<Number(1)>>, Number(2)), DottedList(<<Number(1), Number(2)>>, Atom("t"))}

\* (car '())  (cdr 1)  (car)  (cdr '(1) '(1))  (car (cdr '(1 . 2)))
PairScript(op, args) == Lines(<<CallQuoted(op, args), Number(2)>>)

PairScripts ==
    {PairScript(op, <<val>>) : op \in {"car", "cdr"}, val \in PairVals}
    \cup {PairScript(op, args) :
            op \in {"car", "cdr"},
            args \in {<<>>, <<List(<<>>), List(<<>>)>>,
                      <<List(<<Number(1)>>), List(<<Number(1)>>)>>,
                      <<Number(1), Number(2), Number(3)>>}}
    \cup {Lines(<<List(<<Atom(op),
                         CallQuoted("cdr", <<DottedList(<<Number(1)>>, Number(2))>>)>>)>>) :
            op \in {"car", "cdr"}}

\* '(this is)
ThisIs == List(<<Atom("this"), Atom("is")>>)

ConsHeads == {Number(1), Atom("a"), ThisIs, List(<<>>), DottedList(<<Number(1)>>, Number(2))}

ConsTails ==
    {List(<<>>), List(<<Number(1)>>), List(<<Atom("a"), Number(2), ThisIs>>),
     DottedList(<<Number(1)>>, Number(2)),
     DottedList(<<Number(1), Atom("a")>>, Atom("t")),
     Number(3), String(<<"a", "b">>), Atom("test"), Bool(FALSE)}

\* (cons '(this is) 'test)  (cons '(this is) '())
ConsScript(head, tail) == Lines(<<CallQuoted("cons", <<head, tail>>)>>)

ConsScripts ==
    {ConsScript(head, tail) : head \in ConsHeads, tail \in ConsTails}
    \cup {Lines(<<CallQuoted("cons", <<Number(1)>>)>>),
          Lines(<<CallQuoted("cons", <<Number(1), List(<<>>), List(<<>>)>>)>>)}

\* (define x 1)  (+ (set! x (+ x 1)) (set! x (* x 10)) x)  x
OrderScript ==
    Lines(<<DefX(1),
            List(<<Atom("+"),
                   List(<<Atom("set!"), Atom("x"),
                          List(<<Atom("+"), Atom("x"), Number(1)>>)>>),
                   List(<<Atom("set!"), Atom("x"),
                          List(<<Atom("*"), Atom("x"), Number(10)>>)>>),
                   Atom("x")>>),
            Atom("x")>>)

\* ((if (define g 5) - +) g 1)  g
FuncFirstScript ==
    Lines(<<List(<<List(<<Atom("if"), List(<<Atom("define"), Atom("g"), Number(5)>>),
                          Atom("-"), Atom("+")>>),
                   Atom("g"), Number(1)>>),
            Atom("g")>>)

\* (- (define z 9) (set! z 4) z)  z
ArgDefineScript ==
    Lines(<<List(<<Atom("-"), List(<<Atom("define"), Atom("z"), Number(9)>>),
                   List(<<Atom("set!"), Atom("z"), Number(4)>>), Atom("z")>>),
            Atom("z")>>)

\* ((lambda (p) p) (define k 3))  k  p
ArgKeptScript ==
    Lines(<<List(<<List(<<Atom("lambda"), List(<<Atom("p")>>), Atom("p")>>),
                   List(<<Atom("define"), Atom("k"), Number(3)>>)>>),
            Atom("k"), Atom("p")>>)

\* (+ (define e1 1) u (define e2 2))  e1  e2
ArgFailsScript ==
    Lines(<<List(<<Atom("+"), List(<<Atom("define"), Atom("e1"), Number(1)>>),
                   Atom("u"), List(<<Atom("define"), Atom("e2"), Number(2)>>)>>),
            Atom("e1"), Atom("e2")>>)

OrderScripts ==
    {OrderScript, FuncFirstScript, ArgDefineScript, ArgKeptScript, ArgFailsScript}

\* (define (getv) v)  (getv)  (define v 7)  (getv)  v
LateScript ==
    Lines(<<List(<<Atom("define"), List(<<Atom("getv")>>), Atom("v")>>),
            List(<<Atom("getv")>>),
            List(<<Atom("define"), Atom("v"), Number(7)>>),
            List(<<Atom("getv")>>),
            Atom("v")>>)

\* (define (show) y)  (define (wrap y) (show))  (wrap 5)  (show)
DynamicScript ==
    Lines(<<List(<<Atom("define"), List(<<Atom("show")>>), Atom("y")>>),
            List(<<Atom("define"), List(<<Atom("wrap"), Atom("y")>>),
                   List(<<Atom("show")>>)>>),
            CallNumbers("wrap", <<5>>),
            List(<<Atom("show")>>)>>)

LeakScripts == {LateScript, DynamicScript}

Scripts ==
    LeakScripts \cup OrderScripts \cup ConsScripts \cup PairScripts \cup FewArgsScripts
    \cup CompareScripts
    \cup {TypeScript} \cup DuplicateScripts \cup FailingScripts \cup IfScripts
    \cup QuoteScripts \cup CounterScripts \cup FactorialScripts \cup ArityScripts
    \cup UnboundScripts
    \cup LambdaScripts \cup ShadowScripts \cup FormScripts \cup ArithScripts
    \cup RestoreScripts \cup OtherScripts

\* The lines that may come next: those that continue some script.
NextLines(h) ==
    {s[Len(h) + 1] : s \in {t \in Scripts : Len(t) > Len(h) /\ SubSeq(t, 1, Len(h)) = h}}

----------------------------------------------------------------------------
(* The front end (repl.rs)                                                 *)

ReplEval ==
    /\ ctrl.mode = "idle"
    /\ \E line \in NextLines(hist) :
        /\ line.kind = "form"
        /\ hist' = Append(hist, line)
        /\ ctrl' = Eval(line.form)
    /\ UNCHANGED <<env, stack, output>>

ReplQuit ==
    /\ ctrl.mode = "idle"
    /\ \E line \in NextLines(hist) :
        /\ line.kind = "quit"
        /\ hist' = Append(hist, line)
        /\ ctrl' = Exited
    /\ UNCHANGED <<env, stack, output>>

ReplParseError ==
    /\ ctrl.mode = "idle"
    /\ \E line \in NextLines(hist) :
        /\ line.kind = "unparsable"
        /\ hist' = Append(hist, line)
        /\ output' = Append(output, [st |-> "ParseError"])
    /\ UNCHANGED <<env, ctrl, stack>>

\* eval has returned to run: the value or the error is printed.
ReplOutput ==
    /\ ctrl.mode = "ret" /\ stack = <<>>
    /\ output' = Append(output, ctrl.res)
    /\ ctrl' = Idle
    /\ UNCHANGED <<env, stack, hist>>

Init ==
    /\ env = primitive_bindings
    /\ ctrl = Idle
    /\ stack = <<>>
    /\ hist = <<>>
    /\ output = <<>>

Next ==
    \/ ReplEval \/ ReplQuit \/ ReplParseError \/ ReplOutput
    \/ EvalLiteral \/ EvalAtom \/ EvalQuote \/ EvalIf \/ EvalSet \/ EvalDefine
    \/ EvalDefineFunc \/ EvalLambda \/ EvalLoad \/ EvalApplication
    \/ EvalUnrecognized \/ EvalTodo
    \/ RetError \/ RetIf \/ RetSet \/ RetDefine \/ RetFunc \/ RetArg \/ RetCall
    \/ RetBody \/ RetLoad
    \/ ApplyPrimitive \/ ApplyFunc \/ ApplyNotFunction

Spec == Init /\ [][Next]_vars

\* eval runs to completion: a step that can be taken is taken.
FairSpec == Spec /\ WF_vars(Next)

----------------------------------------------------------------------------
(* The port table of Env on its own (env.rs 82-121).  A caller of Env makes *)
(* the five port calls in any order, on any handle: one that is open, one   *)
(* that was closed, one that was never issued.  Here output holds the call  *)
(* made last with its result, and hist the close calls made so far, each    *)
(* with whether its handle had been issued when it was closed.              *)

MaxPorts == 3

Handles == 0..MaxPorts

Paths == {LibPath, <<"n", "o", "p", "e">>}

PortCall(call, port_id, res) == [call |-> call, port_id |-> port_id, res |-> res]

CallMakeReadPort ==
    /\ env.next_port_id < MaxPorts
    /\ \E path \in Paths :
        LET r == make_read_port(env, path)
        IN  /\ env' = r.env
            /\ output' = <<PortCall("make_read_port", env.next_port_id, r.res)>>
    /\ UNCHANGED <<ctrl, stack, hist>>

CallMakeWritePort ==
    /\ env.next_port_id < MaxPorts
    /\ \E path \in Paths :
        LET r == make_write_port(env, path)
        IN  /\ env' = r.env
            /\ output' = <<PortCall("make_write_port", env.next_port_id, r.res)>>
    /\ UNCHANGED <<ctrl, stack, hist>>

CallClosePort ==
    /\ \E port_id \in Handles :
        LET r == close_port(env, port_id)
        IN  /\ env' = r.env
            /\ output' = <<PortCall("close_port", port_id, r.res)>>
            /\ hist' = hist \cup {[port_id |-> port_id,
                                    issued |-> port_id < env.next_port_id]}
    /\ UNCHANGED <<ctrl, stack>>

CallGetReadPort ==
    /\ \E port_id \in Handles :
        output' = <<PortCall("get_read_port", port_id, get_read_port(env, port_id))>>
    /\ UNCHANGED <<env, ctrl, stack, hist>>

CallGetWritePort ==
    /\ \E port_id \in Handles :
        output' = <<PortCall("get_write_port", port_id, get_write_port(env, port_id))>>
    /\ UNCHANGED <<env, ctrl, stack, hist>>

PortInit ==
    /\ env = DefaultEnv
    /\ ctrl = Idle
    /\ stack = <<>>
    /\ hist = {}
    /\ output = <<>>

PortNext ==
    \/ CallMakeReadPort \/ CallMakeWritePort \/ CallClosePort
    \/ CallGetReadPort \/ CallGetWritePort

PortSpec == PortInit /\ [][PortNext]_vars

----------------------------------------------------------------------------
(* Properties                                                              *)

\* The front end waits for a line: every line read has been answered.
AtPrompt == ctrl.mode = "idle"

\* The value slot i holds (slots count from 0).
slot(i) == env.vals[i + 1]

bound(name) == name \in DOMAIN env.vars

\* The lines read so far are the first lines of the script.
Reading(script) == Len(hist) <= Len(script) /\ hist = SubSeq(script, 1, Len(hist))

RECURSIVE sum_first(_, _)
sum_first(ns, k) == IF k = 0 THEN 0 ELSE sum_first(ns, k - 1) + ns[k]

CounterArgSeqs == UNION {[1..n -> CounterArgs] : n \in 0..MaxCounterCalls}

CounterSession(ns) == Lines(<<DefCounter, DefMyCount>> \o CounterCalls(ns))

\* C1: shared-slot capture.  After (define (counter inc) ...) and
\* (define my-count (counter 5)), the k-th call (my-count a_k) prints 5 plus the
\* sum of the first k arguments (8, 14, 19 for 3, 6, 5): the set! in the body
\* wrote the slot the closure captured for inc, and that slot still holds the
\* running total after the caller's mapping was put back, in which inc is not
\* bound at all.
C1_CounterAccumulates ==
    \A ns \in CounterArgSeqs :
        (AtPrompt /\ hist = CounterSession(ns)) =>
            /\ \A k \in 1..Len(ns) : output[2 + k] = Ok(Number(5 + sum_first(ns, k)))
            /\ ~bound("inc")
            /\ slot(slot(env.vars["my-count"]).closure.vars["inc"])
                    = Number(5 + sum_first(ns, Len(ns)))

C1_Witness ==
    /\ AtPrompt
    /\ hist = CounterSession(<<3, 6, 5>>)
    /\ output[3] = Ok(Number(8)) /\ output[4] = Ok(Number(14))
    /\ output[5] = Ok(Number(19))

PrimitiveNames == {PrimitiveTable[i][1] : i \in 1..Len(PrimitiveTable)}

RECURSIVE mentions(_, _)
\* The form holds the atom somewhere.
mentions(form, name) ==
    CASE form.tag = "Atom" -> form.name = name
      [] form.tag = "List" -> \E i \in 1..Len(form.items) : mentions(form.items[i], name)
      [] form.tag = "DottedList" ->
            \/ \E i \in 1..Len(form.items) : mentions(form.items[i], name)
            \/ mentions(form.tail, name)
      [] OTHER -> FALSE

\* The names a form given at the prompt binds other than through a call: the
\* name of a define, the names the branches of a conditional or the forms of a
\* loaded file define.
RECURSIVE top_level_names(_)
top_level_names(form) ==
    CASE form_shape(form) = "define" -> {form.items[2].name}
      [] form_shape(form) \in {"define_func", "define_func_vararg"} ->
            IF form.items[2].items # <<>> /\ form.items[2].items[1].tag = "Atom"
            THEN {form.items[2].items[1].name}
            ELSE {}
      [] form_shape(form) = "if" ->
            UNION {top_level_names(form.items[i]) : i \in 2..4}
      [] form_shape(form) = "load" ->
            IF load(form.items[2].s).st = "Ok"
            THEN UNION {top_level_names(load(form.items[2].s).v[i]) :
                            i \in 1..Len(load(form.items[2].s).v)}
            ELSE {}
      [] OTHER -> {}

\* No application given at the prompt has a define among its operands.
PlainSession ==
    \A i \in 1..Len(hist) :
        (hist[i].kind = "form" /\ form_shape(hist[i].form) = "application")
            => ~mentions(hist[i].form, "define")

SessionNames ==
    UNION {top_level_names(hist[i].form) : i \in {j \in 1..Len(hist) : hist[j].kind = "form"}}

\* C2, at the prompt: whatever the calls of the session bound (parameters,
\* varargs, entries of captured snapshots) is gone from the live mapping; only
\* the primitives and the names defined at top level are bound.
CalleeNamesGone ==
    (AtPrompt /\ PlainSession) => DOMAIN env.vars \subseteq PrimitiveNames \cup SessionNames

\* C2, step by step: the frame of a generic application holds the mapping as it
\* was when apply was called, right after the last argument was evaluated; when
\* apply has returned, with a value or with an error, the live mapping becomes
\* exactly that mapping again and apply's result is passed on unchanged.
CallSiteStep ==
    /\ ctrl'.mode = "apply" =>
            /\ Head(stack').k = "call"
            /\ Head(stack').closure.vars = env.vars
            /\ env' = env
    /\ Returning("call") =>
            /\ env'.vars = Head(stack).closure.vars
            /\ env'.vals = env.vals
            /\ ctrl' = ctrl
            /\ stack' = Tail(stack)

\* C2: call-site restoration, for every generic application, nested and
\* recursive ones included, whether apply returns a value or an error: the
\* live name->slot mapping right after the application equals the mapping
\* snapshotted right after the arguments were evaluated, so the names the
\* callee bound are not visible to the caller and the caller's names resolve
\* to the slots they had.
C2_CallSiteRestore == [](CalleeNamesGone) /\ [][CallSiteStep]_vars

\* (h 1) has failed inside the body of h, after x was bound: x is not bound
\* at the prompt.
C2_Witness ==
    /\ AtPrompt
    /\ hist = SubSeq(FailingCallScript, 1, 2)
    /\ output[2] = Err(UnboundVar("Setting an unbound var", "zz"))
    /\ ~bound("x")
    /\ Len(env.vals) = Len(PrimitiveTable) + 2

RECURSIVE factorial(_)
factorial(n) == IF n <= 1 THEN 1 ELSE n * factorial(n - 1)

FactorialSession(n) == Lines(<<DefFactorial, CallNumbers("factorial", <<n>>)>>)

\* The closure calls in progress: apply is inside the body of each.
closure_depth == Cardinality({i \in 1..Len(stack) : stack[i].k = "body"})

\* C3, the result: (factorial n) prints n!, and it took exactly n closure
\* calls: each bound x to one new slot and nothing else was defined, and never
\* more than n of them were in progress.
FactorialResult ==
    \A n \in 1..MaxFactorial :
        hist = FactorialSession(n) =>
            /\ closure_depth <= n
            /\ AtPrompt =>
                /\ output[2] = Ok(Number(factorial(n)))
                /\ Len(env.vals) = Len(PrimitiveTable) + 1 + n

\* (factorial n) is the line read last, for an n up to the bound.  No line is
\* read before the evaluation of the line read last has returned.
FactorialCalled == \E n \in 1..MaxFactorial : hist = FactorialSession(n)

\* C3: recursive self-application terminates and is correct.  After
\* (define (factorial x) (if (= x 1) 1 (* x (factorial (- x 1))))), for every
\* n from 1 to the bound, the evaluation of (factorial n) comes back to the
\* prompt, prints n! (3628800 for n = 10) and used exactly n nested closure
\* calls.
C3_FactorialTerminates ==
    /\ [](FactorialResult)
    /\ FactorialCalled ~> (FactorialCalled /\ AtPrompt)

C3_Witness ==
    /\ AtPrompt
    /\ hist = FactorialSession(10)
    /\ output[2] = Ok(Number(3628800))
    /\ Len(env.vals) = Len(PrimitiveTable) + 11

ApplyingFunc == ctrl.mode = "apply" /\ ctrl.func.tag = "Func"

\* C4: vararg binding.  When a closure with parameters p1..pn and a vararg is
\* applied to m >= n arguments, the vararg is bound to the list of exactly the
\* trailing arguments a(n+1)..am, the empty list when m = n.
C4_VarargTrailing ==
    [][(/\ ApplyingFunc
        /\ ctrl.func.vararg # <<>>
        /\ Len(ctrl.args) >= Len(ctrl.func.params))
            => /\ ctrl.func.vararg[1] \in DOMAIN env'.vars
               /\ env'.vals[env'.vars[ctrl.func.vararg[1]] + 1]
                    = List(SubSeq(ctrl.args, Len(ctrl.func.params) + 1, Len(ctrl.args)))]_vars

\* C5, the test's session: (f 1 2 3) and (f 1) print NumArgs with the two
\* expected and the arguments given, and neither consumed a slot.
ArityOutputs ==
    /\ (AtPrompt /\ Len(hist) >= 3 /\ Reading(ArityScript)) =>
            /\ output[3] = Err(NumArgs(2, <<Number(1), Number(2), Number(3)>>))
            /\ Len(env.vals) = Len(PrimitiveTable) + 3
    /\ (AtPrompt /\ Len(hist) >= 4 /\ Reading(ArityScript)) =>
            output[4] = Err(NumArgs(2, <<Number(1)>>))

ArityStep ==
    (ApplyingFunc /\ ctrl.func.vararg = <<>>
        /\ Len(ctrl.args) # Len(ctrl.func.params))
        => /\ ctrl' = Ret(Err(NumArgs(Len(ctrl.func.params), ctrl.args)))
           /\ env' = env
           /\ stack' = stack

\* C5: closure arity check.  A closure without a vararg applied to more or
\* fewer arguments than it has parameters yields NumArgs(params.len(), args);
\* the call fails before the captured snapshot is entered or a parameter is
\* bound, so the mapping and the slot store are as they were.
C5_ArityCheck == [](ArityOutputs) /\ [][ArityStep]_vars

C5_Witness ==
    /\ AtPrompt
    /\ hist = SubSeq(ArityScript, 1, 4)
    /\ output[2] = Ok(Number(3))
    /\ output[3] = Err(NumArgs(2, <<Number(1), Number(2), Number(3)>>))
    /\ output[4] = Err(NumArgs(2, <<Number(1)>>))

\* C6, the session (+ y 2) (set! y 3) y: each fails on y, and y is not bound
\* after the set!.
UnboundOutputs ==
    (AtPrompt /\ Len(hist) \in 1..3 /\ Reading(UnboundScript)) =>
        /\ \A i \in 1..Len(hist) :
                /\ output[i].st = "Err"
                /\ output[i].e.kind = "UnboundVar"
                /\ output[i].e.name = "y"
        /\ output[1] = Err(UnboundVar("Getting an unbound variable", "y"))
        /\ ~bound("y")
        /\ env = primitive_bindings

UnboundStep ==
    /\ (Evaluating("atom") /\ ~bound(ctrl.form.name)) =>
            /\ ctrl' = Ret(Err(UnboundVar("Getting an unbound variable", ctrl.form.name)))
            /\ env' = env
    /\ (ReturningOk("set!") /\ ~bound(Head(stack).var)) =>
            /\ ctrl'.mode = "ret" /\ ctrl'.res.st = "Err"
            /\ ctrl'.res.e.kind = "UnboundVar"
            /\ ctrl'.res.e.name = Head(stack).var
            /\ env' = env

\* C6: unbound names.  Evaluating an atom, or assigning with set!, a name that
\* the live mapping does not hold fails with UnboundVar naming it (with the
\* message "Getting an unbound variable" for the lookup) and leaves the mapping
\* and every slot as they were: set! creates no binding.
C6_UnboundNames == [](UnboundOutputs) /\ [][UnboundStep]_vars

C6_Witness ==
    /\ AtPrompt
    /\ hist = SubSeq(UnboundScript, 1, 3)
    /\ output[2] = Err(UnboundVar("Setting an unbound var", "y"))
    /\ output[3] = Err(UnboundVar("Getting an unbound variable", "y"))

\* The last place of x in seq: of two parameters of one name the later wins.
RECURSIVE last_index(_, _)
last_index(seq, x) ==
    IF seq = <<>> THEN 0
    ELSE IF seq[Len(seq)] = x THEN Len(seq)
    ELSE last_index(SubSeq(seq, 1, Len(seq) - 1), x)

\* apply has passed the arity check and bound the parameters.
EnteredBody ==
    /\ ApplyingFunc
    /\ ctrl'.mode \in {"eval", "ret"}
    /\ ctrl.func.vararg # <<>> \/ Len(ctrl.args) = Len(ctrl.func.params)

DefineStep ==
    \* no step shortens the store
    /\ Len(env'.vals) >= Len(env.vals)
    \* only set! writes a slot that exists
    /\ ~ReturningOk("set!") => SubSeq(env'.vals, 1, Len(env.vals)) = env.vals
    \* (define name X)
    /\ ReturningOk("define") =>
            /\ env'.vals = Append(env.vals, ctrl.res.v)
            /\ env'.vars = insert(env.vars, Head(stack).var, Len(env.vals))
            /\ ctrl' = Ret(Ok(ctrl.res.v))
    \* (define (name ...) ...)
    /\ (ctrl.mode = "eval" /\ ctrl'.mode = "ret" /\ ctrl'.res.st = "Ok"
            /\ form_shape(ctrl.form) \in {"define_func", "define_func_vararg"}) =>
            /\ env'.vals = Append(env.vals, ctrl'.res.v)
            /\ env'.vars = insert(env.vars, ctrl.form.items[2].items[1].name, Len(env.vals))
    \* the parameters and the vararg at call entry: one new slot each
    /\ EnteredBody =>
            LET names == ctrl.func.params \o ctrl.func.vararg
            IN  /\ Len(env'.vals) = Len(env.vals) + Len(names)
                /\ \A i \in 1..Len(ctrl.func.params) :
                        env'.vals[Len(env.vals) + i] = ctrl.args[i]
                /\ \A i \in 1..Len(names) :
                        env'.vars[names[i]] = Len(env.vals) + last_index(names, names[i]) - 1

\* C7, a name defined twice: the second define gave x a new slot and the
\* first slot, which getx captured, still holds the first value.
RedefineKeepsOldSlot ==
    (AtPrompt /\ hist = SubSeq(RedefineScript, 1, 3)) =>
        /\ env.vars["x"] = Len(PrimitiveTable) + 2
        /\ slot(Len(PrimitiveTable) + 2) = Number(2)
        /\ slot(env.vars["getx"]).closure.vars["x"] = Len(PrimitiveTable)
        /\ slot(Len(PrimitiveTable)) = Number(1)
        /\ output[3] = Ok(Number(2))

\* C7: define always succeeds and consumes a fresh slot.  Every define (at top
\* level, of a parameter at call entry, of a name that is already bound)
\* appends exactly one slot to the store, binds the name to it and returns the
\* value; the store never gets shorter and define changes no slot that
\* existed, so the holders of the name's old slot still see the old value.
C7_DefineFreshSlot == [](RedefineKeepsOldSlot) /\ [][DefineStep]_vars

C7_Witness ==
    /\ AtPrompt
    /\ hist = SubSeq(RedefineScript, 1, 3)
    /\ env.vars["x"] = Len(PrimitiveTable) + 2
    /\ slot(Len(PrimitiveTable)) = Number(1)

\* C8, the two sessions: x defined again after getx was created is not what
\* getx sees, x assigned after getx was created is.
ShadowOutputs ==
    /\ (AtPrompt /\ Len(hist) >= 4 /\ Reading(RedefineScript)) =>
            output[4] = Ok(Number(1))
    /\ (AtPrompt /\ hist = RedefineScript) =>
            /\ output[6] = Ok(Number(1))
            /\ output[7] = Ok(Number(7))
    /\ (AtPrompt /\ Len(hist) >= 4 /\ Reading(AssignScript)) =>
            output[4] = Ok(Number(2))

EnterStep ==
    EnteredBody =>
        \A name \in DOMAIN ctrl.func.closure.vars :
            (\A i \in 1..Len(ctrl.func.params \o ctrl.func.vararg) :
                (ctrl.func.params \o ctrl.func.vararg)[i] # name)
                => env'.vars[name] = ctrl.func.closure.vars[name]

\* C8: enter shadows with the captured mapping.  At closure-call entry every
\* name of the captured snapshot (that is not a parameter of the call) resolves
\* to the slot it had when the closure was created, whatever the caller binds
\* it to; so a define of the name made after the closure was created is not
\* seen in the body, and a set! of it, which writes the shared slot, is.
C8_EnterShadows == [](ShadowOutputs) /\ [][EnterStep]_vars

C8_Witness ==
    /\ AtPrompt
    /\ hist = SubSeq(RedefineScript, 1, 4)
    /\ output[4] = Ok(Number(1))
    /\ slot(env.vars["x"]) = Number(2)

\* C9: unrecognized form shapes are errors, not crashes.  A form that matches
\* no row of the evaluation table (the empty list, a dotted list, a function
\* value) evaluates to a BadSpecialForm error naming that form.
C9_UnrecognizedIsError ==
    [][(ctrl.mode = "eval" /\ form_shape(ctrl.form) \in {"unrecognized", "todo"})
            => /\ ctrl'.mode = "ret"
               /\ ctrl'.res = Err(BadSpecialForm("unrecognized special form", ctrl.form))]_vars

ErrorKinds ==
    {"NumArgs", "TypeMismatch", "BadSpecialForm", "NotFunction", "UnboundVar",
     "EmptyBody", "Parser", "IO", "Port"}

\* C10: arithmetic errors are non-fatal.  A numeric fold primitive applied to
\* two or more numbers, a zero divisor included, returns a Number or an error
\* of the taxonomy, and the process goes on.
C10_ArithmeticNonFatal ==
    [][(/\ ctrl.mode = "apply" /\ ctrl.func.tag = "PrimitiveFunc"
        /\ ctrl.func.id \in {"Add", "Sub", "Mul", "Div", "Rem"}
        /\ Len(ctrl.args) >= 2
        /\ \A i \in 1..Len(ctrl.args) : ctrl.args[i].tag = "Number")
            => /\ ctrl'.mode = "ret"
               /\ \/ ctrl'.res.st = "Ok" /\ ctrl'.res.v.tag = "Number"
                  \/ ctrl'.res.st = "Err" /\ ctrl'.res.e.kind \in ErrorKinds]_vars

\* The predicate form gives the boolean false: a literal #f or a quoted one.
GivesFalse(pred) == pred = Bool(FALSE) \/ pred = Quoted(Bool(FALSE))

\* C11, the sessions: the predicate counts its evaluations in n and gives P.
\* When the conditional has returned, the predicate ran once (n is 1), the
\* result is that of the branch P selects, and of the names c and a, which the
\* consequent and the alternative define, only the selected branch's is bound.
IfOutputs ==
    \A pred \in IfPreds :
        (AtPrompt /\ Len(hist) >= 2 /\ Reading(IfScript(pred))) =>
            /\ slot(env.vars["n"]) = Number(1)
            /\ output[2] = Ok(Number(IF GivesFalse(pred) THEN 2 ELSE 1))
            /\ bound("a") = GivesFalse(pred)
            /\ bound("c") = ~GivesFalse(pred)
            /\ Len(env.vals) = Len(PrimitiveTable) + 2

IfStep ==
    /\ Evaluating("if") =>
            /\ ctrl' = Eval(ctrl.form.items[2])
            /\ Tail(stack') = stack /\ Head(stack').k = "if"
            /\ env' = env
    /\ ReturningOk("if") =>
            /\ ctrl' = IF ctrl.res.v = Bool(FALSE)
                       THEN Eval(Head(stack).alt)
                       ELSE Eval(Head(stack).conseq)
            /\ stack' = Tail(stack)
            /\ env' = env

\* C11: conditional.  (if P C A) evaluates P once; when P gives the boolean
\* false it evaluates and returns A, and for every other value (true, a number,
\* a string, an atom, a list) it evaluates and returns C.  One branch is
\* evaluated: the define of the other branch does not happen.
C11_Conditional == [](IfOutputs) /\ [][IfStep]_vars

\* P gave the number 0: the consequent ran, the alternative did not.
C11_Witness ==
    /\ AtPrompt
    /\ hist = IfScript(Number(0))
    /\ output[2] = Ok(Number(1))
    /\ bound("c") /\ ~bound("a")
    /\ output[3] = Ok(Number(1))

\* C12, the sessions: 'X prints X itself, and afterwards the environment is
\* the initial one: q is unbound and car is still the primitive.
QuoteOutputs ==
    \A form \in QuoteForms :
        (Len(hist) >= 1 /\ Reading(QuoteScript(form))) =>
            /\ env = primitive_bindings
            /\ ctrl.mode \notin {"panicked", "apply"}
            /\ AtPrompt =>
                /\ output[1] = Ok(form)
                /\ Len(hist) >= 2 =>
                        output[2] = Err(UnboundVar("Getting an unbound variable", "q"))
                /\ Len(hist) >= 3 => output[3] = Ok(PrimitiveFunc("Car"))

QuoteStep ==
    Evaluating("quote") =>
        /\ ctrl' = Ret(Ok(ctrl.form.items[2]))
        /\ env' = env
        /\ stack' = stack

\* C12: quote round trip.  Evaluating the two-element list (quote X) returns X
\* as it is, in one step: neither X nor a form inside it is evaluated, and the
\* mapping and the slots are unchanged.
C12_QuoteRoundTrip == [](QuoteOutputs) /\ [][QuoteStep]_vars

\* '(define q 1) printed (define q 1), and q is not bound.
C12_Witness ==
    /\ AtPrompt
    /\ hist = SubSeq(QuoteScript(List(<<Atom("define"), Atom("q"), Number(1)>>)), 1, 2)
    /\ output[1] = Ok(List(<<Atom("define"), Atom("q"), Number(1)>>))
    /\ output[2] = Err(UnboundVar("Getting an unbound variable", "q"))
    /\ env = primitive_bindings

\* C13, the sessions: the form prints the error of its failing sub-form; then
\* late is unbound, x is 1, and a further define is accepted.
FailingOutputs ==
    \A f \in FailingForms :
        (AtPrompt /\ Len(hist) >= 2 /\ Reading(FailingScript(f[1]))) =>
            /\ output[2] = Err(f[2])
            /\ ~bound("u")
            /\ Len(hist) < 5 => ~bound("late")
            /\ slot(env.vars["x"]) = Number(1)
            /\ env.vars["x"] = Len(PrimitiveTable)
            /\ \A i \in 1..Len(PrimitiveTable) :
                    /\ env.vars[PrimitiveTable[i][1]] = i - 1
                    /\ slot(i - 1) = PrimitiveTable[i][2]
            /\ Len(hist) >= 3 =>
                    output[3] = Err(UnboundVar("Getting an unbound variable", "late"))
            /\ Len(hist) >= 4 => output[4] = Ok(Number(1))
            /\ Len(hist) >= 5 => output[5] = Ok(Number(2)) /\ slot(env.vars["late"]) = Number(2)

\* An error travels up one activation at a time, as it is: the activation it
\* reaches does nothing more (a call site puts its mapping back, and changes no
\* slot), and at the top the front end prints it and reads on.
PropagateStep ==
    (ctrl.mode = "ret" /\ ctrl.res.st = "Err") =>
        /\ env'.vals = env.vals
        /\ stack # <<>> =>
                /\ ctrl' = ctrl
                /\ stack' = Tail(stack)
                /\ output' = output
                /\ Head(stack).k # "call" => env' = env
                /\ Head(stack).k = "call" => env'.vars = Head(stack).closure.vars
        /\ stack = <<>> =>
                /\ ctrl' = Idle
                /\ output' = Append(output, ctrl.res)
                /\ env' = env /\ stack' = stack

\* C13: error propagation.  When the evaluation of a sub-form fails, the
\* enclosing form returns that error unmodified, no later sub-form of it is
\* evaluated (their define and set! do not happen), and the session goes on
\* with the same environment: what was defined before the failing form is
\* still bound to its value.
C13_ErrorPropagation == [](FailingOutputs) /\ [][PropagateStep]_vars

\* ((lambda (p) (car p) (set! x 9)) '()) failed in the first form of the body:
\* x is still 1 and the next line was evaluated.
C13_Witness ==
    /\ AtPrompt
    /\ Len(hist) = 4
    /\ hist[2].form.items[1].tag = "List"
    /\ hist[2].form.items[1].items[2] = List(<<Atom("p")>>)
    /\ output[2] = Err(TypeMismatch("pair", List(<<>>)))
    /\ output[4] = Ok(Number(1))

\* The parameters of a closure, the vararg included, are pairwise distinct.
distinct_params(val) ==
    val.tag = "Func" =>
        LET names == val.params \o val.vararg
        IN  \A i \in 1..Len(names) : \A j \in 1..Len(names) :
                i # j => names[i] # names[j]

\* C14: closure parameter uniqueness.  In every reachable state every closure
\* a lambda form or a (define (name . args) body...) form has produced (as the
\* result of a form, in a slot, or being applied) has pairwise distinct
\* parameter names, and its vararg differs from each of them.
C14_ParamsUnique ==
    /\ \A i \in 1..Len(env.vals) : distinct_params(env.vals[i])
    /\ (ctrl.mode = "ret" /\ ctrl.res.st = "Ok") => distinct_params(ctrl.res.v)
    /\ ctrl.mode = "apply" => distinct_params(ctrl.func)

ComparisonIds ==
    {"Eq", "Lt", "Gt", "Ne", "Ge", "Le", "And", "Or",
     "StringEq", "StringLt", "StringGt", "StringLe", "StringGe"}

\* The kind of operand each comparison expects.
CompareKind(id) ==
    CASE id \in {"Eq", "Lt", "Gt", "Ne", "Ge", "Le"} -> "number"
      [] id \in {"And", "Or"} -> "bool"
      [] OTHER -> "string"

\* The decimal numerals among the strings and numbers of the sessions.
Numerals == {<<(<<"2">>), 2>>, <<(<<"3">>), 3>>}

\* The texts of the sessions in the order of their code points.
TextOrder ==
    << <<"2">>, <<"3">>, AString, TheString, <<"a", "b">>, <<"a", "b", "c">>,
       <<"b", "b", "a">>, <<"f", "a", "l", "s", "e">>, <<"t", "r", "u", "e">> >>

Coercible(kind, val) ==
    CASE kind = "number" ->
            \/ val.tag = "Number"
            \/ val.tag = "String" /\ \E p \in Numerals : p[1] = val.s
      [] kind = "bool" -> val.tag = "Bool"
      [] kind = "string" -> val.tag \in {"String", "Number", "Bool"}

NumberOf(val) ==
    IF val.tag = "Number" THEN val.n ELSE (CHOOSE p \in Numerals : p[1] = val.s)[2]

TextOf(val) ==
    CASE val.tag = "String" -> val.s
      [] val.tag = "Number" -> (CHOOSE p \in Numerals : p[2] = val.n)[1]
      [] val.tag = "Bool" ->
            IF val.b THEN <<"t", "r", "u", "e">> ELSE <<"f", "a", "l", "s", "e">>

Rank(text) == CHOOSE i \in 1..Len(TextOrder) : TextOrder[i] = text

\* What the comparison says of two operands of its kind.
Compares(id, lhs, rhs) ==
    CASE id = "Eq" -> NumberOf(lhs) = NumberOf(rhs)
      [] id = "Lt" -> NumberOf(lhs) < NumberOf(rhs)
      [] id = "Gt" -> NumberOf(lhs) > NumberOf(rhs)
      [] id = "Ne" -> NumberOf(lhs) # NumberOf(rhs)
      [] id = "Ge" -> NumberOf(lhs) >= NumberOf(rhs)
      [] id = "Le" -> NumberOf(lhs) <= NumberOf(rhs)
      [] id = "And" -> lhs.b /\ rhs.b
      [] id = "Or" -> lhs.b \/ rhs.b
      [] id = "StringEq" -> Rank(TextOf(lhs)) = Rank(TextOf(rhs))
      [] id = "StringLt" -> Rank(TextOf(lhs)) < Rank(TextOf(rhs))
      [] id = "StringGt" -> Rank(TextOf(lhs)) > Rank(TextOf(rhs))
      [] id = "StringLe" -> Rank(TextOf(lhs)) <= Rank(TextOf(rhs))
      [] id = "StringGe" -> Rank(TextOf(lhs)) >= Rank(TextOf(rhs))

ComparisonResult(id, args) ==
    IF Len(args) # 2 THEN Err(NumArgs(2, args))
    ELSE IF ~Coercible(CompareKind(id), args[1])
    THEN Err(TypeMismatch(CompareKind(id), args[1]))
    ELSE IF ~Coercible(CompareKind(id), args[2])
    THEN Err(TypeMismatch(CompareKind(id), args[2]))
    ELSE Ok(Bool(Compares(id, args[1], args[2])))

ApplyingComparison ==
    /\ ctrl.mode = "apply" /\ ctrl.func.tag = "PrimitiveFunc"
    /\ ctrl.func.id \in ComparisonIds

CompareStep ==
    ApplyingComparison =>
        /\ ctrl' = Ret(ComparisonResult(ctrl.func.id, ctrl.args))
        /\ env' = env

\* C15, the test's session: < on "A string" fails on that string, string<? on
\* the same operands gives true.
TypeOutputs ==
    (AtPrompt /\ Reading(TypeScript)) =>
        /\ Len(hist) >= 2 => output[2] = Err(TypeMismatch("number", String(AString)))
        /\ Len(hist) >= 3 => output[3] = Ok(Bool(TRUE))

\* C15: the comparison primitives take exactly 2 arguments.  With any other
\* number of arguments the result is NumArgs(2, the arguments); with 2, an
\* argument that cannot be coerced to the kind the primitive expects gives
\* TypeMismatch(kind, the first such argument), and otherwise the result is the
\* Bool of the comparison.
C15_Comparisons == [](TypeOutputs) /\ [][CompareStep]_vars

\* (< str "The string") has failed on the value of str.
C15_Witness ==
    /\ AtPrompt
    /\ hist = SubSeq(TypeScript, 1, 2)
    /\ output[2] = Err(TypeMismatch("number", String(AString)))

ArithIds == {"Add", "Sub", "Mul", "Div", "Rem"}

FewArgsOutputs ==
    \A op \in ArithNames : \A args \in FewArgs :
        (AtPrompt /\ Len(hist) >= 1 /\ Reading(FewArgsScript(op, args))) =>
            /\ output[1] = Err(NumArgs(2, args))
            /\ env = primitive_bindings

FewArgsStep ==
    (/\ ctrl.mode = "apply" /\ ctrl.func.tag = "PrimitiveFunc"
     /\ ctrl.func.id \in ArithIds
     /\ Len(ctrl.args) < 2)
        => /\ ctrl' = Ret(Err(NumArgs(2, ctrl.args)))
           /\ env' = env

\* C16: the numeric binary primitives (+ - * / mod quotient remainder) given
\* fewer than 2 arguments, none or one of any kind, yield NumArgs(2, the
\* arguments as given): the argument is not coerced, so one that is no number
\* gives NumArgs as well, not TypeMismatch.
C16_NumericFewArgs == [](FewArgsOutputs) /\ [][FewArgsStep]_vars

\* (mod "ab") has answered NumArgs, and the session went on.
C16_Witness ==
    /\ AtPrompt
    /\ hist = FewArgsScript("mod", <<String(<<"a", "b">>)>>)
    /\ output[1] = Err(NumArgs(2, <<String(<<"a", "b">>)>>))
    /\ output[2] = Ok(Number(2))

\* A list or a dotted list with at least one item.
IsPair(val) == val.tag \in {"List", "DottedList"} /\ Len(val.items) >= 1

PairOutputs ==
    \A op \in {"car", "cdr"} :
        /\ (AtPrompt /\ Len(hist) >= 1 /\ Reading(PairScript(op, <<List(<<>>)>>))) =>
                output[1] = Err(TypeMismatch("pair", List(<<>>)))
        /\ \A val \in PairVals :
                (AtPrompt /\ Len(hist) >= 1 /\ Reading(PairScript(op, <<val>>))) =>
                    IF IsPair(val) THEN output[1].st = "Ok"
                    ELSE output[1] = Err(TypeMismatch("pair", val))

PairStep ==
    (ctrl.mode = "apply" /\ ctrl.func.tag = "PrimitiveFunc"
        /\ ctrl.func.id \in {"Car", "Cdr"}) =>
        /\ env' = env
        /\ ctrl'.mode = "ret"
        /\ Len(ctrl.args) # 1 => ctrl'.res = Err(NumArgs(1, ctrl.args))
        /\ (Len(ctrl.args) = 1 /\ ~IsPair(ctrl.args[1])) =>
                ctrl'.res = Err(TypeMismatch("pair", ctrl.args[1]))
        /\ (Len(ctrl.args) = 1 /\ IsPair(ctrl.args[1])) => ctrl'.res.st = "Ok"

\* C17: car and cdr on exactly one argument that is the empty list yield
\* TypeMismatch("pair", the empty list); more generally one argument that is
\* not a list or dotted list with at least one item yields
\* TypeMismatch("pair", that argument), and any number of arguments other than
\* one yields NumArgs(1, the arguments).
C17_CarCdrErrors == [](PairOutputs) /\ [][PairStep]_vars

\* (cdr '()) has answered TypeMismatch("pair", ()).
C17_Witness ==
    /\ AtPrompt
    /\ hist = SubSeq(PairScript("cdr", <<List(<<>>)>>), 1, 1)
    /\ output[1] = Err(TypeMismatch("pair", List(<<>>)))

\* head has been put in front of items, whose order is kept.
Prepended(head, items, result) ==
    /\ Len(result) = Len(items) + 1
    /\ result[1] = head
    /\ \A i \in 1..Len(items) : result[i + 1] = items[i]

\* What cons says of head and tail.
IsCons(head, tail, val) ==
    CASE tail.tag = "List" ->
            val.tag = "List" /\ Prepended(head, tail.items, val.items)
      [] tail.tag = "DottedList" ->
            /\ val.tag = "DottedList"
            /\ Prepended(head, tail.items, val.items)
            /\ val.tail = tail.tail
      [] OTHER ->
            val.tag = "DottedList" /\ val.items = <<head>> /\ val.tail = tail

ConsOutputs ==
    /\ \A head \in ConsHeads : \A tail \in ConsTails :
            (AtPrompt /\ hist = ConsScript(head, tail)) =>
                /\ output[1].st = "Ok"
                /\ IsCons(head, tail, output[1].v)
                /\ env = primitive_bindings
    /\ (AtPrompt /\ hist = ConsScript(ThisIs, Atom("test"))) =>
            to_string(output[1].v) = "((this is) . test)"
    /\ (AtPrompt /\ hist = ConsScript(ThisIs, List(<<>>))) =>
            to_string(output[1].v) = "((this is))"

ConsStep ==
    (ctrl.mode = "apply" /\ ctrl.func.tag = "PrimitiveFunc" /\ ctrl.func.id = "Cons"
        /\ Len(ctrl.args) = 2) =>
        /\ ctrl'.mode = "ret" /\ ctrl'.res.st = "Ok"
        /\ IsCons(ctrl.args[1], ctrl.args[2], ctrl'.res.v)
        /\ env' = env

\* C18: cons on two arguments A and B.  When B is List(xs) the result is
\* List([A] + xs); when B is DottedList(xs, t) the result is
\* DottedList([A] + xs, t); for every other B it is DottedList([A], B).  B's
\* kind, proper or dotted, is kept and so is the order of xs.
C18_Cons == [](ConsOutputs) /\ [][ConsStep]_vars

\* (cons '(this is) 'test) has printed ((this is) . test).
C18_Witness ==
    /\ AtPrompt
    /\ hist = ConsScript(ThisIs, Atom("test"))
    /\ output[1] = Ok(DottedList(<<ThisIs>>, Atom("test")))

\* The call made last.
LastCall == output[1]

Called(call) == output # <<>> /\ LastCall.call = call

IsPortError(res) == res.st = "Err" /\ res.e.kind = "Port"

\* Neither direction can be borrowed on the handle.
NoBorrow(port_id) ==
    /\ IsPortError(get_read_port(env, port_id))
    /\ IsPortError(get_write_port(env, port_id))

\* C19 as stated: once close was called on a handle, whichever it was, the
\* handle can be borrowed in neither direction for the rest of the session.
C19_ClosedNeverBorrowed == \A c \in hist : NoBorrow(c.port_id)

\* close answers true on every handle; a borrow succeeds exactly on a handle
\* that is open in the direction asked for, and fails with a port error
\* otherwise.
PortResults ==
    /\ Called("close_port") =>
            /\ LastCall.res = Ok(Bool(TRUE))
            /\ LastCall.port_id \notin DOMAIN env.ports
    /\ Called("get_read_port") =>
            IF LastCall.port_id \in DOMAIN env.ports
                /\ env.ports[LastCall.port_id].dir = "read"
            THEN LastCall.res.st = "Ok"
            ELSE IsPortError(LastCall.res)
    /\ Called("get_write_port") =>
            IF LastCall.port_id \in DOMAIN env.ports
                /\ env.ports[LastCall.port_id].dir = "write"
            THEN LastCall.res.st = "Ok"
            ELSE IsPortError(LastCall.res)

\* Handles are issued in increasing order, each once: an open that succeeds
\* issues the handle next_port_id and moves next_port_id past it, and nothing
\* else changes next_port_id or opens a handle.
IssueStep ==
    /\ env'.next_port_id >= env.next_port_id
    /\ DOMAIN env'.ports \subseteq (DOMAIN env.ports) \cup {env.next_port_id}
    /\ env.next_port_id \in DOMAIN env'.ports => env'.next_port_id = env.next_port_id + 1
    /\ \A port_id \in DOMAIN env'.ports : port_id < env'.next_port_id

\* C19, amended: port lifecycle.  close on any handle (open, closed before,
\* never issued) returns true.  After close(h) on a handle that had been
\* issued, borrowing h as a reader or as a writer fails with a port error for
\* the rest of the session, whatever is opened later: handles are issued in
\* increasing order and an issued handle is not issued again.  A borrow succeeds
\* only on a handle that is open in the direction asked for.
C19_PortLifecycle ==
    /\ [](PortResults)
    /\ [](\A c \in hist : c.issued => NoBorrow(c.port_id))
    /\ [][IssueStep]_vars

\* Handle 0 was issued and closed, two handles were issued after it, and a
\* borrow of handle 0 has just failed.
C19_Witness ==
    /\ [port_id |-> 0, issued |-> TRUE] \in hist
    /\ env.next_port_id = 3
    /\ DOMAIN env.ports = {1, 2}
    /\ Called("get_read_port") /\ LastCall.port_id = 0
    /\ IsPortError(LastCall.res)

\* C20: closure application is total.  Applying a closure to any argument
\* vector gives a value or an error of the taxonomy and the process goes on; a
\* closure with parameters p1..pn (n >= 1) and a vararg applied to fewer than n
\* arguments gives an error, it does not abort.
C20_ClosureApplyTotal ==
    [][ApplyingFunc =>
        /\ ctrl'.mode \in {"eval", "ret"}
        /\ (ctrl.func.vararg # <<>> /\ Len(ctrl.args) < Len(ctrl.func.params)) =>
                /\ ctrl'.mode = "ret" /\ ctrl'.res.st = "Err"
                /\ ctrl'.res.e.kind \in ErrorKinds]_vars

\* At the prompt, the i-th line of the script has printed outs[i].
Prints(script, outs) ==
    \A i \in 1..Len(outs) :
        (AtPrompt /\ Len(hist) >= i /\ Reading(script)) => output[i] = outs[i]

Unbound(name) == Err(UnboundVar("Getting an unbound variable", name))

\* C21, the sessions.  The arguments see x as the arguments before them left
\* it (2, 20, 20: 42); the function position defines g and the first argument
\* reads it; z defined by the first argument is assigned by the second and read
\* by the third, and is bound after the call, as is k, while the parameter p is
\* not; after the second argument failed, e1 is bound and e2 is not.
OrderOutputs ==
    /\ Prints(OrderScript, <<Ok(Number(1)), Ok(Number(42)), Ok(Number(20))>>)
    /\ Prints(FuncFirstScript, <<Ok(Number(4)), Ok(Number(5))>>)
    /\ Prints(ArgDefineScript, <<Ok(Number(1)), Ok(Number(4))>>)
    /\ Prints(ArgKeptScript, <<Ok(Number(3)), Ok(Number(3)), Unbound("p")>>)
    /\ Prints(ArgFailsScript, <<Unbound("u"), Ok(Number(1)), Unbound("e2")>>)

\* The function position first, then the arguments from the left, each value
\* put after those before it; apply is called when, and only when, the last of
\* them has its value, with the values in the order of the arguments and the
\* mapping of that moment as the snapshot.
OrderStep ==
    /\ Evaluating("application") =>
            /\ ctrl' = Eval(ctrl.form.items[1])
            /\ Head(stack') = [k |-> "func", args |-> Tail(ctrl.form.items)]
            /\ Tail(stack') = stack
    /\ (ReturningOk("func") /\ Head(stack).args # <<>>) =>
            /\ ctrl' = Eval(Head(stack).args[1])
            /\ Head(stack').k = "args"
            /\ Head(stack').func = ctrl.res.v
            /\ Head(stack').done = <<>>
            /\ Head(stack').rest = Tail(Head(stack).args)
    /\ (ReturningOk("args") /\ Head(stack).rest # <<>>) =>
            /\ ctrl' = Eval(Head(stack).rest[1])
            /\ Head(stack').k = "args"
            /\ Head(stack').done = Append(Head(stack).done, ctrl.res.v)
            /\ Head(stack').rest = Tail(Head(stack).rest)
    /\ (ReturningOk("func") /\ Head(stack).args = <<>>) => ctrl' = Apply(ctrl.res.v, <<>>)
    /\ (ReturningOk("args") /\ Head(stack).rest = <<>>) =>
            ctrl' = Apply(Head(stack).func, Append(Head(stack).done, ctrl.res.v))
    /\ ctrl'.mode = "apply" =>
            /\ \/ ReturningOk("func") /\ Head(stack).args = <<>>
               \/ ReturningOk("args") /\ Head(stack).rest = <<>>
            /\ Head(stack').k = "call"
            /\ Head(stack').closure.vars = env.vars
            /\ env' = env
    /\ (ctrl.mode = "ret" /\ ctrl.res.st = "Err" /\ stack # <<>>
            /\ Head(stack).k \in {"func", "args"}) =>
            /\ ctrl' = ctrl
            /\ stack' = Tail(stack)
            /\ env' = env

\* C21: evaluation order of a generic application (F A1 ... An).  F is
\* evaluated first, then A1..An from left to right, and then the caller's
\* snapshot is taken and apply is called.  What F or an earlier argument
\* defines or assigns is seen by the later arguments; when Ai fails no later
\* argument is evaluated and apply is not called; what F or the arguments
\* define is in the snapshot and so is still bound after the call.
C21_ApplicationOrder == [](OrderOutputs) /\ [][OrderStep]_vars

\* (+ (set! x (+ x 1)) (set! x (* x 10)) x) has printed 42 and x is 20.
C21_Witness ==
    /\ AtPrompt
    /\ hist = SubSeq(OrderScript, 1, 2)
    /\ output[2] = Ok(Number(42))
    /\ slot(env.vars["x"]) = Number(20)

\* Every slot the mapping names is in the store.
valid_mapping(m) == \A name \in DOMAIN m : m[name] >= 0 /\ m[name] < Len(env.vals)

\* Every snapshot a closure inside the value captured names slots of the store.
RECURSIVE valid_value(_)
valid_value(val) ==
    CASE val.tag = "Func" ->
            /\ valid_mapping(val.closure.vars)
            /\ \A i \in 1..Len(val.body) : valid_value(val.body[i])
      [] val.tag = "List" -> \A i \in 1..Len(val.items) : valid_value(val.items[i])
      [] val.tag = "DottedList" ->
            /\ \A i \in 1..Len(val.items) : valid_value(val.items[i])
            /\ valid_value(val.tail)
      [] OTHER -> TRUE

\* The snapshot of a call site, and the values an application has computed.
valid_frame(frame) ==
    CASE frame.k = "call" -> valid_mapping(frame.closure.vars)
      [] frame.k = "args" ->
            /\ valid_value(frame.func)
            /\ \A i \in 1..Len(frame.done) : valid_value(frame.done[i])
      [] OTHER -> TRUE

valid_ctrl ==
    CASE ctrl.mode = "ret" /\ ctrl.res.st = "Ok" -> valid_value(ctrl.res.v)
      [] ctrl.mode = "apply" ->
            /\ valid_value(ctrl.func)
            /\ \A i \in 1..Len(ctrl.args) : valid_value(ctrl.args[i])
      [] OTHER -> TRUE

\* C22: slot-index validity.  In every reachable state every slot index in the
\* live mapping, in the snapshot of every closure (in a slot, being returned,
\* being applied, waiting as an argument) and in the snapshot of every call site
\* is less than the length of the slot store: a lookup or an assignment through
\* a mapping that enter or restore installed finds its slot.
C22_SlotsValid ==
    /\ valid_mapping(env.vars)
    /\ \A i \in 1..Len(env.vals) : valid_value(env.vals[i])
    /\ \A i \in 1..Len(stack) : valid_frame(stack[i])
    /\ valid_ctrl

\* my-count holds the slot that the call (counter 5) made for inc; the call
\* has returned and the slot is in the store, past the two definitions.
C22_Witness ==
    /\ AtPrompt
    /\ hist = CounterSession(<<3>>)
    /\ ~bound("inc")
    /\ slot(env.vars["my-count"]).closure.vars["inc"] = Len(PrimitiveTable) + 1
    /\ Len(env.vals) = Len(PrimitiveTable) + 4

\* C23, the sessions: getv reads v, defined after getv was created; show, called
\* from the body of wrap, reads the parameter y of wrap, and fails when it is
\* called from the prompt, where y is not bound.
LeakOutputs ==
    /\ Prints(LateScript, <<Ok(Func(<<>>, <<>>, <<Atom("v")>>, Closure(primitive_bindings.vars))),
                            Unbound("v"), Ok(Number(7)), Ok(Number(7)), Ok(Number(7))>>)
    /\ (AtPrompt /\ Len(hist) >= 3 /\ Reading(DynamicScript)) => output[3] = Ok(Number(5))
    /\ (AtPrompt /\ hist = DynamicScript) => output[4] = Unbound("y")

\* C23, recursion: the closure of factorial does not hold the name factorial,
\* and the recursive calls found it all the same.
RecursionThroughCaller ==
    (AtPrompt /\ FactorialCalled) =>
        /\ "factorial" \notin DOMAIN slot(env.vars["factorial"]).closure.vars
        /\ \E n \in 1..MaxFactorial :
                hist = FactorialSession(n) /\ output[2] = Ok(Number(factorial(n)))

LeakStep ==
    \* the snapshot of (define (name ...) body...) is the mapping before name
    \* is bound
    /\ (ctrl.mode = "eval" /\ ctrl'.mode = "ret" /\ ctrl'.res.st = "Ok"
            /\ form_shape(ctrl.form) \in {"define_func", "define_func_vararg"}) =>
            /\ ctrl'.res.v.closure.vars = env.vars
            /\ env'.vals[env'.vars[ctrl.form.items[2].items[1].name] + 1] = ctrl'.res.v
    \* at call entry the caller's bindings stay, but for the names of the
    \* snapshot and the parameters
    /\ EnteredBody =>
            LET names == ctrl.func.params \o ctrl.func.vararg
                fresh == {names[i] : i \in 1..Len(names)}
            IN  /\ DOMAIN env'.vars =
                        DOMAIN env.vars \cup DOMAIN ctrl.func.closure.vars \cup fresh
                /\ \A name \in DOMAIN env.vars :
                        name \notin DOMAIN ctrl.func.closure.vars \cup fresh
                            => env'.vars[name] = env.vars[name]

\* C23: caller bindings leak into the callee.  At closure-call entry a name
\* that is neither a parameter nor in the captured snapshot keeps the caller's
\* live binding, so the body resolves it to the caller's slot; the snapshot of
\* (define (name ...) body...) is the mapping before name is bound, so a
\* recursive reference resolves through the caller's mapping, and a name
\* defined after the closure was created is visible in its body.
C23_CallerLeak == [](LeakOutputs /\ RecursionThroughCaller) /\ [][LeakStep]_vars

\* show has read the parameter of wrap, which its snapshot does not hold and
\* the prompt does not bind.
C23_Witness ==
    /\ AtPrompt
    /\ hist = SubSeq(DynamicScript, 1, 3)
    /\ output[3] = Ok(Number(5))
    /\ "y" \notin DOMAIN slot(env.vars["show"]).closure.vars
    /\ ~bound("y")

====
